---- MODULE Spec2Model ----
(***************************************************************************)
(* Model of the matching engine: the order book (package matching), the   *)
(* idempotency store and the shard (package engine) and the file event    *)
(* store (package persistence).                                            *)
(*                                                                         *)
(* Conventions                                                             *)
(*  - a Go map is a TLA+ function whose DOMAIN is the set of present keys; *)
(*  - container/list queues are sequences of order ids; an order's        *)
(*    `element` back-pointer is non-nil exactly when its id is in a queue; *)
(*  - order ids are naturals n standing for the string "o<n>", 0 standing  *)
(*    for the empty string; trade ids are naturals n standing for          *)
(*    "trd_<n>" (fmt.Sprintf("trd_%d") is injective);                      *)
(*  - timestamps (CreatedAt, OccurredAt) are observational and left out;   *)
(*  - an error is the text of its message ("" is nil), without the         *)
(*    interpolated ids.                                                    *)
(***************************************************************************)
EXTENDS Integers, Sequences, FiniteSets, TLC

VARIABLES
    books,      \* Shard.books: symbol -> OrderBook
    emitted,    \* history: symbol -> Sequence() of every event its book returned
    lastCall,   \* history: the last call made on a book and what it returned
    records,    \* IdempotencyStore.records: key string -> IdempotencyRecord
    eventLog,   \* FileEventStore: symbol -> lines of the symbol's events.log
    now,        \* wall clock read by the idempotency store
    cmdQueue,   \* Shard.cmdQueue: commandRequests waiting for the executor
    threads,    \* per-thread position and local data
    enqueued,   \* history: requests in the order they entered cmdQueue
    executed,   \* history: requests in the order the executor took them
    delivered,  \* history: requests in the order their submitters were answered
    lastProc,   \* history: what the last processCommand took and returned
    owner,      \* history: key string -> IdempotencyKey its record was stored for
    issued,     \* history: IdempotencyKey -> result of its latest execution
    inBook,     \* history: threads now inside code that mutates s.books
    race,       \* "none", "racing" (two threads inside), "fatal" (process died)
    ledger,     \* MemoryService: balances, freezes and appliedTrades
    lastLedger, \* history: the last ledger call, the state it found, its error
    mu,         \* MemoryService.mu: the worker holding it, or "free"
    workers,    \* goroutines calling the ledger: position and locals
    proj,       \* the projector's order and trade repositories
    lastProject,\* history: the last Project call, the state it found, its error
    submitMu,   \* Shard.submitMu: its reading holders, its writer, who waits to write
    stopped,    \* Shard.stopped
    queueClosed,\* close(s.cmdQueue) has run
    closed,     \* Engine.closed
    closeOnce,  \* Engine.closeOnce: "new", "running" or "done"
    eventCounters, \* Shard.eventCounters: symbol -> events counted for a snapshot
    snapshots,  \* history: the snapshots createSnapshot has built, in order
    lastReply   \* history: what Handler.PlaceOrder answered last

bookVars  == <<books, emitted, lastCall>>
shardVars == <<records, eventLog, now, lastProc, owner, issued>>
concVars  == <<cmdQueue, threads, enqueued, executed, delivered, inBook, race>>
ledgerVars == <<ledger, lastLedger, mu, workers>>
projVars  == <<proj, lastProject>>
stopVars  == <<submitMu, stopped, queueClosed, closed, closeOnce>>
snapVars  == <<eventCounters, snapshots>>
replyVars == <<lastReply>>
vars      == <<books, emitted, lastCall, records, eventLog, now, cmdQueue,
               threads, enqueued, executed, delivered, lastProc, owner, issued,
               inBook, race, ledger, lastLedger, mu, workers, proj, lastProject,
               submitMu, stopped, queueClosed, closed, closeOnce,
               eventCounters, snapshots, lastReply>>

----------------------------------------------------------------------------
(* Bounds and input sets                                                   *)

MaxOrders  == 3         \* order ids 1..MaxOrders may be placed on one book
MaxCancels == 1         \* successful cancels on one book

BTC == "BTC-USDT"
ETH == "ETH-USDT"

Accounts == {"a1", "a2"}
Prices   == {1, 2}
Qtys     == {1, 2}

SideBuy  == "BUY"
SideSell == "SELL"

OrderStatusNew             == "NEW"
OrderStatusPartiallyFilled == "PARTIALLY_FILLED"
OrderStatusFilled          == "FILLED"
OrderStatusCanceled        == "CANCELED"

CancelReasonUser == "USER"

----------------------------------------------------------------------------
(* Go maps and lists                                                       *)

EmptyMap == <<>>

Put(m, k, v) == [x \in (DOMAIN m) \cup {k} |-> IF x = k THEN v ELSE m[x]]

Del(m, k) == [x \in (DOMAIN m) \ {k} |-> m[x]]

Has(m, k) == k \in DOMAIN m

RemoveFromSeq(q, x) == SelectSeq(q, LAMBDA y : y # x)

InSeq(q, x) == \E i \in 1..Len(q) : q[i] = x

\* F applied to the value of e (to the values of d and e): a LET whose
\* right-hand side is evaluated once, however often the body uses it.
Let1(F(_), e) == CHOOSE v \in {F(x) : x \in {e}} : TRUE

Let2(F(_, _), d, e) == CHOOSE v \in {F(x, y) : x \in {d}, y \in {e}} : TRUE

SetMax(S) == CHOOSE x \in S : \A y \in S : y <= x

SetMin(S) == CHOOSE x \in S : \A y \in S : x <= y

----------------------------------------------------------------------------
(* matching: requests                                                      *)

SideIsValid(s) == s = SideBuy \/ s = SideSell

PlaceValidate(r) ==
    IF r.OrderID = 0 THEN "order_id required"
    ELSE IF r.ClientOrderID = "" THEN "client_order_id required"
    ELSE IF r.AccountID = "" THEN "account_id required"
    ELSE IF r.Symbol = "" THEN "symbol required"
    ELSE IF ~SideIsValid(r.Side) THEN "invalid side"
    ELSE IF r.PriceInt <= 0 THEN "price must be positive"
    ELSE IF r.QuantityInt <= 0 THEN "quantity must be positive"
    ELSE ""

CancelValidate(r) ==
    IF r.OrderID = 0 THEN "order_id required"
    ELSE IF r.AccountID = "" THEN "account_id required"
    ELSE IF r.Symbol = "" THEN "symbol required"
    ELSE ""

----------------------------------------------------------------------------
(* matching: price levels                                                  *)

NewPriceLevel(price) == [Price |-> price, Queue |-> <<>>, Volume |-> 0]

\* AddOrder linking the order in with PushFront
AddOrderFront(pl, id, remaining) ==
    [pl EXCEPT !.Queue = <<id>> \o @, !.Volume = @ + remaining]

\* PriceLevel.AddOrder: PushBack and Volume += RemainingQty
AddOrder(pl, id, remaining) ==
    [pl EXCEPT !.Queue = Append(@, id), !.Volume = @ + remaining]

\* RemoveOrder unlinking the order and leaving Volume as it was
RemoveOrderKeepVolume(pl, id, remaining) ==
    IF InSeq(pl.Queue, id)
    THEN [pl EXCEPT !.Queue = RemoveFromSeq(@, id)]
    ELSE pl

\* PriceLevel.RemoveOrder: only when the order is linked into a queue
RemoveOrder(pl, id, remaining) ==
    IF InSeq(pl.Queue, id)
    THEN [pl EXCEPT !.Queue = RemoveFromSeq(@, id), !.Volume = @ - remaining]
    ELSE pl

IsEmpty(pl) == Len(pl.Queue) = 0

----------------------------------------------------------------------------
(* matching: order book                                                    *)

NewOrderBook(symbol) ==
    [Symbol       |-> symbol,
     BidLevels    |-> EmptyMap,
     AskLevels    |-> EmptyMap,
     Orders       |-> EmptyMap,
     closedOrders |-> EmptyMap,
     eventSeq     |-> 0,
     tradeSeq     |-> 0]

EmptyResult == [OrderStatusChanges |-> <<>>, Trades |-> <<>>, Events |-> <<>>]

\* a book whose counter is read without being advanced
nextEventSequenceStuck(ob) == ob.eventSeq

nextEventSequence(ob) == ob.eventSeq + 1

\* result.Events = append(result.Events, event), put at the front instead
appendEventFront(result, event) == [result EXCEPT !.Events = <<event>> \o @]

appendEvent(result, event) == [result EXCEPT !.Events = Append(@, event)]

nextTradeID(ob) == ob.tradeSeq + 1

getBestBid(ob) ==
    IF DOMAIN ob.BidLevels = {} THEN 0 ELSE SetMax(DOMAIN ob.BidLevels)

\* getBestAsk keeping the highest ask, as getBestBid does for bids
getBestAskHighest(ob) ==
    IF DOMAIN ob.AskLevels = {} THEN 0 ELSE SetMax(DOMAIN ob.AskLevels)

getBestAsk(ob) ==
    IF DOMAIN ob.AskLevels = {} THEN 0 ELSE SetMin(DOMAIN ob.AskLevels)

Levels(ob, side) == IF side = SideBuy THEN ob.BidLevels ELSE ob.AskLevels

SetLevels(ob, side, lv) ==
    IF side = SideBuy THEN [ob EXCEPT !.BidLevels = lv]
    ELSE [ob EXCEPT !.AskLevels = lv]

getOrCreatePriceLevel(ob, side, price) ==
    IF Has(Levels(ob, side), price) THEN ob
    ELSE SetLevels(ob, side, Put(Levels(ob, side), price, NewPriceLevel(price)))

removePriceLevelIfEmpty(ob, side, price) ==
    IF Has(Levels(ob, side), price) /\ IsEmpty(Levels(ob, side)[price])
    THEN SetLevels(ob, side, Del(Levels(ob, side), price))
    ELSE ob

\* updateOrderStatus: st = [ob, result]; appends a status change only when
\* the status derived from RemainingQty differs from the stored one.
updateOrderStatus(st, id) ==
    LET F(order) ==
          LET oldStatus == order.Status
              newStatus == IF order.RemainingQty = 0 THEN OrderStatusFilled
                           ELSE IF order.RemainingQty < order.Quantity
                                THEN OrderStatusPartiallyFilled
                                ELSE OrderStatusNew
          IN  IF newStatus # oldStatus
              THEN [ob     |-> [st.ob EXCEPT !.Orders[id].Status = newStatus],
                    result |-> [st.result EXCEPT !.OrderStatusChanges = Append(@,
                                  [OrderID      |-> id,
                                   OldStatus    |-> oldStatus,
                                   NewStatus    |-> newStatus,
                                   RemainingQty |-> order.RemainingQty,
                                   FilledQty    |-> order.Quantity - order.RemainingQty])]]
              ELSE st
    IN  Let1(F, st.ob.Orders[id])

\* executeMatch(maker, taker, price): returns [ob, result, matchQty]
executeMatch(ob, makerID, takerID, price, result) ==
    LET F(maker, taker) ==
          LET matchQty == IF taker.RemainingQty < maker.RemainingQty
                          THEN taker.RemainingQty ELSE maker.RemainingQty
              tid      == nextTradeID(ob)
              seq      == nextEventSequence(ob)
              ob1      == [ob EXCEPT !.Orders[makerID].RemainingQty = @ - matchQty,
                                     !.Orders[takerID].RemainingQty = @ - matchQty,
                                     !.tradeSeq = tid,
                                     !.eventSeq = seq]
              trade    == [TradeID      |-> tid,
                           Symbol       |-> ob.Symbol,
                           MakerOrderID |-> makerID,
                           TakerOrderID |-> takerID,
                           Price        |-> price,
                           Quantity     |-> matchQty,
                           MakerSide    |-> maker.Side,
                           TakerSide    |-> taker.Side]
              event    == [Type          |-> "OrderMatched",
                           SequenceValue |-> seq,
                           SymbolValue   |-> ob.Symbol,
                           TradeID       |-> tid,
                           MakerOrderID  |-> makerID,
                           TakerOrderID  |-> takerID,
                           Price         |-> price,
                           Quantity      |-> matchQty,
                           MakerSide     |-> maker.Side,
                           TakerSide     |-> taker.Side]
              res1     == appendEvent([result EXCEPT !.Trades = Append(@, trade)],
                                      event)
              G(st1)   == LET H(st2) == [ob |-> st2.ob, result |-> st2.result,
                                         matchQty |-> matchQty]
                          IN  Let1(H, updateOrderStatus(st1, takerID))
          IN  Let1(G, updateOrderStatus([ob |-> ob1, result |-> res1], makerID))
    IN  Let2(F, ob.Orders[makerID], ob.Orders[takerID])

\* The best opposite price for a taker of the given side, 0 when none.
bestOpposite(ob, takerSide) ==
    IF takerSide = SideBuy THEN getBestAsk(ob) ELSE getBestBid(ob)

OppositeSide(side) == IF side = SideBuy THEN SideSell ELSE SideBuy

\* The loop guard breaking also at the best opposite price itself
noCrossAtBest(takerSide, takerPrice, best) ==
    \/ best = 0
    \/ (takerSide = SideBuy  /\ takerPrice <= best)
    \/ (takerSide = SideSell /\ takerPrice >= best)

\* The loop guard of matchBuyOrder / matchSellOrder after the best price
\* has been read: TRUE when the loop breaks.
noCross(takerSide, takerPrice, best) ==
    \/ best = 0
    \/ (takerSide = SideBuy  /\ takerPrice < best)
    \/ (takerSide = SideSell /\ takerPrice > best)

\* The steps after executeMatch that leave a filled maker in ob.Orders
afterMatchKeepActive(m, mside, best, makerID) ==
    LET level == Levels(m.ob, mside)[best]
        vol   == IF level.Volume - m.matchQty < 0 THEN 0
                 ELSE level.Volume - m.matchQty
        F(ob1) ==
          IF ob1.Orders[makerID].RemainingQty = 0
          THEN LET lv == RemoveOrder(Levels(ob1, mside)[best], makerID,
                                     ob1.Orders[makerID].RemainingQty)
                   G(ob3) == removePriceLevelIfEmpty(
                               [ob3 EXCEPT !.closedOrders = Put(@, makerID,
                                                                OrderStatusFilled)],
                               mside, best)
               IN  Let1(G, SetLevels(ob1, mside,
                                     [Levels(ob1, mside) EXCEPT ![best] = lv]))
          ELSE ob1
    IN  Let1(F, SetLevels(m.ob, mside,
                          [Levels(m.ob, mside) EXCEPT ![best].Volume = vol]))

\* The tail of one loop round, after executeMatch has returned m: the level's
\* Volume is reduced (never below 0) and an exhausted maker is unlinked,
\* closed as FILLED and its level dropped when empty.
afterMatch(m, mside, best, makerID) ==
    LET level == Levels(m.ob, mside)[best]
        vol   == IF level.Volume - m.matchQty < 0 THEN 0
                 ELSE level.Volume - m.matchQty
        F(ob1) ==
          IF ob1.Orders[makerID].RemainingQty = 0
          THEN LET lv == RemoveOrder(Levels(ob1, mside)[best], makerID,
                                     ob1.Orders[makerID].RemainingQty)
                   G(ob3) == removePriceLevelIfEmpty(
                               [ob3 EXCEPT !.Orders = Del(@, makerID),
                                           !.closedOrders = Put(@, makerID,
                                                                OrderStatusFilled)],
                               mside, best)
               IN  Let1(G, SetLevels(ob1, mside,
                                     [Levels(ob1, mside) EXCEPT ![best] = lv]))
          ELSE ob1
    IN  Let1(F, SetLevels(m.ob, mside,
                          [Levels(m.ob, mside) EXCEPT ![best].Volume = vol]))

\* matchBuyOrder and matchSellOrder are the same loop on opposite sides;
\* matchOrder(ob, takerID, result) is that loop for the taker's side.
RECURSIVE matchOrder(_, _, _)
matchOrder(ob0, takerID, result0) ==
    LET F(ob, result) ==
          LET taker == ob.Orders[takerID]
              mside == OppositeSide(taker.Side)
              best  == bestOpposite(ob, taker.Side)
          IN  IF ~(taker.RemainingQty > 0) THEN [ob |-> ob, result |-> result]
              ELSE IF noCross(taker.Side, taker.Price, best)
                   THEN [ob |-> ob, result |-> result]
              ELSE IF IsEmpty(Levels(ob, mside)[best])
                   THEN matchOrder(SetLevels(ob, mside, Del(Levels(ob, mside), best)),
                                   takerID, result)
              ELSE LET makerID == Head(Levels(ob, mside)[best].Queue)
                       G(m) == matchOrder(afterMatch(m, mside, best, makerID),
                                          takerID, m.result)
                   IN  Let1(G, executeMatch(ob, makerID, takerID,
                                            ob.Orders[makerID].Price, result))
    IN  Let2(F, ob0, result0)

matchBuyOrder(ob, takerID, result) == matchOrder(ob, takerID, result)

matchSellOrder(ob, takerID, result) == matchOrder(ob, takerID, result)

\* A rejected call: nothing of the book is touched before an early return.
Rejected(ob, e) == [ob |-> ob, result |-> EmptyResult, err |-> e]

\* PlaceLimit from "Create order" on: the request has passed every check.
placeAccepted(ob, req) ==
    LET order == [OrderID       |-> req.OrderID,
                  ClientOrderID |-> req.ClientOrderID,
                  AccountID     |-> req.AccountID,
                  Symbol        |-> req.Symbol,
                  Side          |-> req.Side,
                  Price         |-> req.PriceInt,
                  Quantity      |-> req.QuantityInt,
                  RemainingQty  |-> req.QuantityInt,
                  Status        |-> OrderStatusNew]
        seq   == nextEventSequence(ob)
        ob1   == [ob EXCEPT !.Orders = Put(@, req.OrderID, order),
                            !.eventSeq = seq]
        acc   == [Type          |-> "OrderAccepted",
                  SequenceValue |-> seq,
                  SymbolValue   |-> ob.Symbol,
                  OrderID       |-> order.OrderID,
                  ClientOrderID |-> order.ClientOrderID,
                  AccountID     |-> order.AccountID,
                  Side          |-> order.Side,
                  Price         |-> order.Price,
                  Quantity      |-> order.Quantity,
                  Status        |-> order.Status]
        res1  == appendEvent(EmptyResult, acc)
        F(m)  ==
          LET left == m.ob.Orders[req.OrderID]
              G(obl) == SetLevels(obl, left.Side,
                          [Levels(obl, left.Side) EXCEPT ![left.Price] =
                              AddOrder(@, req.OrderID, left.RemainingQty)])
          IN  [ob     |-> IF left.RemainingQty > 0
                          THEN Let1(G, getOrCreatePriceLevel(m.ob, left.Side,
                                                             left.Price))
                          ELSE [m.ob EXCEPT !.Orders = Del(@, req.OrderID),
                                            !.closedOrders = Put(@, req.OrderID,
                                                                 OrderStatusFilled)],
               result |-> m.result,
               err    |-> ""]
    IN  Let1(F, IF order.Side = SideBuy
                THEN matchBuyOrder(ob1, req.OrderID, res1)
                ELSE matchSellOrder(ob1, req.OrderID, res1))

\* PlaceLimit drawing the event sequence before the duplicate checks
PlaceLimitSeqFirst(ob, req) ==
    IF PlaceValidate(req) # "" THEN Rejected(ob, PlaceValidate(req))
    ELSE IF req.Symbol # ob.Symbol THEN Rejected(ob, "symbol mismatch")
    ELSE IF Has(ob.Orders, req.OrderID) \/ Has(ob.closedOrders, req.OrderID)
         THEN Rejected([ob EXCEPT !.eventSeq = @ + 1], "duplicate order_id")
    ELSE placeAccepted(ob, req)

\* OrderBook.PlaceLimit: returns [ob, result, err]; every check comes before
\* the first write to the book.
PlaceLimit(ob, req) ==
    IF PlaceValidate(req) # "" THEN Rejected(ob, PlaceValidate(req))
    ELSE IF req.Symbol # ob.Symbol THEN Rejected(ob, "symbol mismatch")
    ELSE IF Has(ob.Orders, req.OrderID) THEN Rejected(ob, "duplicate order_id")
    ELSE IF Has(ob.closedOrders, req.OrderID) THEN Rejected(ob, "duplicate order_id")
    ELSE placeAccepted(ob, req)

\* Cancel from "Remove from order book" on: the order is active and owned
\* by the requesting account.
cancelAccepted(ob, req) ==
    LET order  == ob.Orders[req.OrderID]
        change == [OrderID      |-> req.OrderID,
                   OldStatus    |-> order.Status,
                   NewStatus    |-> OrderStatusCanceled,
                   RemainingQty |-> order.RemainingQty,
                   FilledQty    |-> order.Quantity - order.RemainingQty]
        F(ob1) ==
          LET seq == nextEventSequence(ob1)
              evt == [Type          |-> "OrderCanceled",
                      SequenceValue |-> seq,
                      SymbolValue   |-> ob.Symbol,
                      OrderID       |-> req.OrderID,
                      AccountID     |-> order.AccountID,
                      RemainingQty  |-> order.RemainingQty,
                      CanceledBy    |-> CancelReasonUser]
          IN  [ob     |-> [ob1 EXCEPT !.eventSeq = seq,
                                      !.Orders = Del(@, req.OrderID),
                                      !.closedOrders = Put(@, req.OrderID,
                                                           OrderStatusCanceled)],
               result |-> appendEvent([EmptyResult EXCEPT
                                         !.OrderStatusChanges = <<change>>], evt),
               err    |-> ""]
    IN  Let1(F, IF Has(Levels(ob, order.Side), order.Price)
                THEN removePriceLevelIfEmpty(
                       SetLevels(ob, order.Side,
                         [Levels(ob, order.Side) EXCEPT ![order.Price] =
                             RemoveOrder(@, req.OrderID, order.RemainingQty)]),
                       order.Side, order.Price)
                ELSE ob)

\* OrderBook.Cancel: returns [ob, result, err]; every check comes before the
\* first write to the book.
Cancel(ob, req) ==
    IF CancelValidate(req) # "" THEN Rejected(ob, CancelValidate(req))
    ELSE IF req.Symbol # ob.Symbol THEN Rejected(ob, "symbol mismatch")
    ELSE IF Has(ob.closedOrders, req.OrderID)
         THEN IF ob.closedOrders[req.OrderID] = OrderStatusFilled
              THEN Rejected(ob, "order already filled")
              ELSE IF ob.closedOrders[req.OrderID] = OrderStatusCanceled
                   THEN Rejected(ob, "order already canceled")
                   ELSE Rejected(ob, "order not found")
    ELSE IF ~Has(ob.Orders, req.OrderID) THEN Rejected(ob, "order not found")
    ELSE IF ob.Orders[req.OrderID].AccountID # req.AccountID
         THEN Rejected(ob, "unauthorized: order belongs to different account")
    ELSE IF ob.Orders[req.OrderID].Status = OrderStatusFilled
         THEN Rejected(ob, "cannot cancel filled order")
    ELSE IF ob.Orders[req.OrderID].Status = OrderStatusCanceled
         THEN Rejected(ob, "order already canceled")
    ELSE cancelAccepted(ob, req)

\* OrderBook.GetOrderSnapshot: returns [snapshot, err].  An active order
\* gives every field; a closed order gives the id, the symbol, the status
\* and RemainingQty 0, every other field being Go's zero value.
GetOrderSnapshot(ob, orderID) ==
    IF Has(ob.Orders, orderID)
    THEN [snapshot |->
            [OrderID       |-> ob.Orders[orderID].OrderID,
             ClientOrderID |-> ob.Orders[orderID].ClientOrderID,
             AccountID     |-> ob.Orders[orderID].AccountID,
             Symbol        |-> ob.Orders[orderID].Symbol,
             Side          |-> ob.Orders[orderID].Side,
             Price         |-> ob.Orders[orderID].Price,
             Quantity      |-> ob.Orders[orderID].Quantity,
             RemainingQty  |-> ob.Orders[orderID].RemainingQty,
             FilledQty     |-> ob.Orders[orderID].Quantity
                                 - ob.Orders[orderID].RemainingQty,
             Status        |-> ob.Orders[orderID].Status],
          err |-> ""]
    ELSE IF Has(ob.closedOrders, orderID)
    THEN [snapshot |->
            [OrderID       |-> orderID,
             ClientOrderID |-> "",
             AccountID     |-> "",
             Symbol        |-> ob.Symbol,
             Side          |-> "",
             Price         |-> 0,
             Quantity      |-> 0,
             RemainingQty  |-> 0,
             FilledQty     |-> 0,
             Status        |-> ob.closedOrders[orderID]],
          err |-> ""]
    ELSE [snapshot |-> [nil |-> TRUE], err |-> "order not found"]

----------------------------------------------------------------------------
(* Calls made directly on one book (the matching package's own callers)    *)

AccountOf(n) == IF n % 2 = 1 THEN "a1" ELSE "a2"

KnownIDs(ob) == (DOMAIN ob.Orders) \cup (DOMAIN ob.closedOrders)

\* Order ids are opaque, so fresh ids are drawn in increasing order.
FreshIDs(ob) ==
    LET free == (1..MaxOrders) \ KnownIDs(ob)
    IN  IF free = {} THEN {} ELSE {SetMin(free)}

PlaceReq(n, acct, sym, side, price, qty) ==
    [OrderID       |-> n,
     ClientOrderID |-> "c",
     AccountID     |-> acct,
     Symbol        |-> sym,
     Side          |-> side,
     PriceInt      |-> price,
     QuantityInt   |-> qty]

CancelReq(n, acct, sym) == [OrderID |-> n, AccountID |-> acct, Symbol |-> sym]

GoodPlaceRequests(ob) ==
    {PlaceReq(n, AccountOf(n), BTC, side, p, q) :
        n \in FreshIDs(ob), side \in {SideBuy, SideSell}, p \in Prices, q \in Qtys}

\* Requests PlaceLimit must reject: invalid fields, the symbol of another
\* book, and a reuse of each id the book knows.
BadPlaceRequests(ob) ==
    {PlaceReq(0, "a1", BTC, SideBuy, 1, 1),
     PlaceReq(1, "a1", BTC, "HOLD", 1, 1),
     PlaceReq(1, "a1", BTC, SideBuy, 0, 1),
     PlaceReq(1, "a1", BTC, SideSell, 1, 0),
     PlaceReq(MaxOrders, "a1", ETH, SideBuy, 1, 1)}
    \cup {PlaceReq(n, AccountOf(n), BTC, SideSell, 1, 2) : n \in KnownIDs(ob)}

Canceled(ob) ==
    {n \in DOMAIN ob.closedOrders : ob.closedOrders[n] = OrderStatusCanceled}

\* Cancels of every id the book knows by either account, of one id it does
\* not know, one with an empty id and one for another book's symbol.  A
\* cancel that would succeed is offered while fewer than MaxCancels have.
CancelRequests(ob) ==
    {CancelReq(n, a, BTC) : n \in KnownIDs(ob) \cup FreshIDs(ob), a \in Accounts}
    \cup {CancelReq(0, "a1", BTC), CancelReq(1, "a1", ETH)}

CancelAllowed(ob, req) ==
    Cancel(ob, req).err # "" \/ Cardinality(Canceled(ob)) < MaxCancels

\* Event.Sequence() of each event of a result, in order
Sequences(events) == [i \in 1..Len(events) |-> events[i].SequenceValue]

NoCall == [op |-> "none", symbol |-> "", req |-> <<>>, err |-> "",
           result |-> EmptyResult]

Call(op, sym, req, r) ==
    [op |-> op, symbol |-> sym, req |-> req, err |-> r.err, result |-> r.result]

InitBook ==
    /\ books = [s \in {BTC} |-> NewOrderBook(s)]
    /\ emitted = [s \in {BTC} |-> <<>>]
    /\ lastCall = NoCall

\* No shard around the book: the shard's and the threads' variables rest.
ShardIdle ==
    /\ records = EmptyMap
    /\ eventLog = EmptyMap
    /\ now = 0
    /\ lastProc = <<>>
    /\ owner = EmptyMap
    /\ issued = EmptyMap

ConcIdle ==
    /\ cmdQueue = <<>>
    /\ threads = EmptyMap
    /\ enqueued = <<>>
    /\ executed = <<>>
    /\ delivered = <<>>
    /\ inBook = {}
    /\ race = "none"

\* No ledger around the book: the ledger's variables rest.
LedgerIdle ==
    /\ ledger = [balances |-> EmptyMap, freezes |-> EmptyMap, appliedTrades |-> {}]
    /\ lastLedger = <<>>
    /\ mu = "free"
    /\ workers = EmptyMap

\* No projector reads the events.
ProjIdle ==
    /\ proj = <<>>
    /\ lastProject = <<>>

\* No snapshot store is attached to the shard, or the interval is out of
\* reach: no event is counted and no snapshot is built.
SnapIdle ==
    /\ eventCounters = <<>>
    /\ snapshots = <<>>

\* No request has been answered.
NoReply == [Code |-> "", OrderID |-> 0, Status |-> ""]

ReplyIdle == lastReply = NoReply

\* Nobody stops the shard or closes the engine.
StopIdle ==
    /\ submitMu = [readers |-> {}, writer |-> "", waiting |-> {}]
    /\ stopped = FALSE
    /\ queueClosed = FALSE
    /\ closed = FALSE
    /\ closeOnce = "new"

BookPlace(sym, req) ==
    \E r \in {PlaceLimit(books[sym], req)} :
        /\ books' = [books EXCEPT ![sym] = r.ob]
        /\ emitted' = [emitted EXCEPT ![sym] = @ \o Sequences(r.result.Events)]
        /\ lastCall' = Call("place", sym, req, r)
        /\ UNCHANGED <<replyVars, snapVars, projVars, stopVars, ledgerVars, shardVars, concVars>>

BookCancel(sym, req) ==
    \E r \in {Cancel(books[sym], req)} :
        /\ books' = [books EXCEPT ![sym] = r.ob]
        /\ emitted' = [emitted EXCEPT ![sym] = @ \o Sequences(r.result.Events)]
        /\ lastCall' = Call("cancel", sym, req, r)
        /\ UNCHANGED <<replyVars, snapVars, projVars, stopVars, ledgerVars, shardVars, concVars>>

PlaceGood == \E req \in GoodPlaceRequests(books[BTC]) : BookPlace(BTC, req)

PlaceBad == \E req \in BadPlaceRequests(books[BTC]) : BookPlace(BTC, req)

CancelAny ==
    \E req \in CancelRequests(books[BTC]) :
        /\ CancelAllowed(books[BTC], req)
        /\ BookCancel(BTC, req)

Init == InitBook /\ ShardIdle /\ ConcIdle /\ LedgerIdle /\ ProjIdle /\ SnapIdle /\ ReplyIdle /\ StopIdle

Next == PlaceGood \/ PlaceBad \/ CancelAny

Spec == Init /\ [][Next]_vars

----------------------------------------------------------------------------
(* Properties of the order book, checked under Spec                        *)

\* A step in which a place was accepted by the book of symbol lastCall'.symbol
PlaceStep == lastCall'.op = "place" /\ lastCall'.err = "" /\ books' # books

\* A step in which a call was rejected by a book
RejectStep == lastCall'.err # "" /\ lastCall' # lastCall

TradesOf(call) == call.result.Trades

\* C1: the sequence numbers of all events a book has emitted are exactly
\* 1, 2, ..., n in emission order: the first is 1, each later one is its
\* predecessor plus one, none is skipped or used twice.
C1_DenseSequences ==
    \A s \in DOMAIN emitted :
        \A i \in 1..Len(emitted[s]) : emitted[s][i] = i

\* C1 witness: accepts, a trade and a cancel have been emitted and the last
\* call was a rejected one.
C1_Witness ==
    /\ Len(emitted[BTC]) >= 4
    /\ books[BTC].tradeSeq >= 1
    /\ Canceled(books[BTC]) # {}
    /\ lastCall.err # ""

\* C2: within one price level resting orders trade in insertion order (ids
\* are drawn in increasing order, so a smaller id at the same side and price
\* was inserted earlier): when a taker trades with maker m, every order
\* inserted earlier at m's level has been traded to zero before, and a maker
\* left partially filled is still at the head of its level's queue.
C2_FIFO ==
    [][PlaceStep =>
        LET ob == books[lastCall'.symbol]
            nb == books'[lastCall'.symbol]
            tr == TradesOf(lastCall')
        IN  \A i \in 1..Len(tr) :
              LET m == tr[i].MakerOrderID
              IN  /\ m \in DOMAIN ob.Orders
                  /\ \A o \in DOMAIN ob.Orders :
                        ( /\ o < m
                          /\ ob.Orders[o].Side = ob.Orders[m].Side
                          /\ ob.Orders[o].Price = ob.Orders[m].Price )
                        => /\ o \notin DOMAIN nb.Orders
                           /\ \E j \in 1..(i - 1) : tr[j].MakerOrderID = o
                  /\ m \in DOMAIN nb.Orders =>
                        /\ Has(Levels(nb, ob.Orders[m].Side), ob.Orders[m].Price)
                        /\ Head(Levels(nb, ob.Orders[m].Side)[ob.Orders[m].Price].Queue) = m
    ]_vars

\* C2 witness: one taker has traded with two makers of the same price level
\* and left the second of them partially filled.
C2_Witness ==
    /\ lastCall.op = "place" /\ lastCall.err = ""
    /\ Len(TradesOf(lastCall)) = 2
    /\ TradesOf(lastCall)[1].Price = TradesOf(lastCall)[2].Price
    /\ TradesOf(lastCall)[1].MakerOrderID < TradesOf(lastCall)[2].MakerOrderID
    /\ TradesOf(lastCall)[2].MakerOrderID \in DOMAIN books[BTC].Orders

\* Price a is strictly better than price b for a taker of the given side.
Better(takerSide, a, b) == IF takerSide = SideBuy THEN a < b ELSE a > b

\* C3: a taker trades level by level from the best opposite price outward
\* (ascending asks for a BUY, descending bids for a SELL): every trade is at
\* the maker's resting price, none is beyond the taker's limit, and a level
\* is traded only when every better opposite level has been used up.
C3_BestPriceFirst ==
    [][PlaceStep =>
        LET ob    == books[lastCall'.symbol]
            nb    == books'[lastCall'.symbol]
            req   == lastCall'.req
            tr    == TradesOf(lastCall')
            mside == OppositeSide(req.Side)
        IN  \A i \in 1..Len(tr) :
              /\ tr[i].MakerOrderID \in DOMAIN ob.Orders
              /\ tr[i].Price = ob.Orders[tr[i].MakerOrderID].Price
              /\ ~Better(req.Side, req.PriceInt, tr[i].Price)
              /\ i > 1 => ~Better(req.Side, tr[i].Price, tr[i - 1].Price)
              /\ \A p \in DOMAIN Levels(ob, mside) :
                    Better(req.Side, p, tr[i].Price)
                    => p \notin DOMAIN Levels(nb, mside)
    ]_vars

\* C3 witness: one taker has traded at two different prices, the better one
\* first, the second one better than its own limit or equal to it.
C3_Witness ==
    /\ lastCall.op = "place" /\ lastCall.err = ""
    /\ Len(TradesOf(lastCall)) = 2
    /\ Better(lastCall.req.Side, TradesOf(lastCall)[1].Price,
              TradesOf(lastCall)[2].Price)

\* C4: a successful place returns exactly one OrderAccepted for the placed
\* order, then one OrderMatched per trade in execution order, each event's
\* sequence being its predecessor's plus one.
C4_PlaceEventOrder ==
    (lastCall.op = "place" /\ lastCall.err = "") =>
        LET ev == lastCall.result.Events
            tr == TradesOf(lastCall)
        IN  /\ Len(ev) = 1 + Len(tr)
            /\ ev[1].Type = "OrderAccepted"
            /\ ev[1].OrderID = lastCall.req.OrderID
            /\ \A i \in 1..Len(tr) :
                  /\ ev[i + 1].Type = "OrderMatched"
                  /\ ev[i + 1].TradeID = tr[i].TradeID
                  /\ ev[i + 1].MakerOrderID = tr[i].MakerOrderID
                  /\ ev[i + 1].TakerOrderID = lastCall.req.OrderID
                  /\ ev[i + 1].Price = tr[i].Price
                  /\ ev[i + 1].Quantity = tr[i].Quantity
                  /\ i > 1 => tr[i].TradeID = tr[i - 1].TradeID + 1
            /\ \A i \in 2..Len(ev) :
                  ev[i].SequenceValue = ev[i - 1].SequenceValue + 1

\* C4 witness: a place on a book that had emitted events before returned an
\* accept and two matches.
C4_Witness ==
    /\ lastCall.op = "place" /\ lastCall.err = ""
    /\ Len(lastCall.result.Events) = 3
    /\ lastCall.result.Events[1].SequenceValue > 1

\* C5: a place or cancel the book rejects leaves the book as it was (active
\* orders, levels and queues, closed orders, eventSeq, tradeSeq) and emits
\* no event.
C5_RejectionFrame ==
    [][RejectStep =>
        /\ books' = books
        /\ emitted' = emitted
        /\ lastCall'.result = EmptyResult
    ]_vars

\* C5 witness: a book with a resting order, a filled order and a canceled
\* order has just rejected a call.
C5_Witness ==
    /\ lastCall.err # ""
    /\ DOMAIN books[BTC].Orders # {}
    /\ Canceled(books[BTC]) # {}
    /\ \E n \in DOMAIN books[BTC].closedOrders :
          books[BTC].closedOrders[n] = OrderStatusFilled

-----------------------------------------------------------------------------
(* The shard: idempotency store, event store and processCommand.           *)
(* The shard is configured as cmd/api configures it for persistence: an    *)
(* event store is attached.  Snapshots are modelled apart, in SpecSnap:     *)
(* elsewhere the interval is out of reach of the commands a run processes. *)

MaxCommands == 2        \* commands one run of the shard processes
MaxNow      == 2        \* the clock runs from 0 to MaxNow, in units of 24 h
TTL         == 1        \* EngineConfig.IdempotencyTTL: 24 h

CommandTypePlace  == "PLACE"
CommandTypeCancel == "CANCEL"
CommandTypeQuery  == "QUERY"

ErrorCodeNone                 == ""
ErrorCodeDuplicateRequest     == "DUPLICATE_REQUEST"
ErrorCodeInvalidArgument      == "INVALID_ARGUMENT"
ErrorCodeInternalError        == "INTERNAL_ERROR"
ErrorCodeOrderNotFound        == "ORDER_NOT_FOUND"
ErrorCodeOrderAlreadyFilled   == "ORDER_ALREADY_FILLED"
ErrorCodeOrderAlreadyCanceled == "ORDER_ALREADY_CANCELED"
ErrorCodeUnauthorized         == "UNAUTHORIZED"

\* A nil *CommandResult, and a nil *CommandExecResult
NilResult == [nil |-> TRUE]

ExecResult(result, code, err) == [Result |-> result, ErrorCode |-> code, Err |-> err]

\* Account ids and idempotency keys are free-form strings; two of the
\* model's contain ':'.
AcctColon == "a1:BTC-USDT:PLACE"
IdemColon == "BTC-USDT:PLACE:k1"

ShardAccounts == {"a1", AcctColon}

\* The idempotency keys each account uses
ShardIdemKeys(account) == IF account = "a1" THEN {"k1", IdemColon} ELSE {"k1"}

\* A string as the list of its ':'-free pieces (strings.Split(s, ":")), so
\* that joining strings with ':' between them is concatenating their lists.
Split(s) ==
    IF s = AcctColon THEN <<"a1", BTC, CommandTypePlace>>
    ELSE IF s = IdemColon THEN <<BTC, CommandTypePlace, "k1">>
    ELSE <<s>>

IdempotencyKey(account, symbol, type, key) ==
    [AccountID |-> account, Symbol |-> symbol, CommandType |-> type,
     IdempotencyKey |-> key]

\* IdempotencyKey.String: Sprintf("%s:%s:%s:%s", ...), as its list of pieces
KeyString(k) ==
    Split(k.AccountID) \o Split(k.Symbol) \o Split(k.CommandType)
        \o Split(k.IdempotencyKey)

\* ComputePayloadHash: SHA-256 of the payload's JSON, taken to be free of
\* collisions: two hashes are equal exactly when the payloads are.
ComputePayloadHash(payload) == <<"sha256", payload>>

Expired(record, t) == t > record.ExpiresAt

\* IdempotencyStore.Check that never finds a record
CheckAlwaysMiss(recs, t, key, payloadHash) == [cached |-> NilResult, err |-> ""]

\* IdempotencyStore.Check that takes a record of another payload for a miss
CheckNoConflict(recs, t, key, payloadHash) ==
    IF ~Has(recs, KeyString(key)) THEN [cached |-> NilResult, err |-> ""]
    ELSE IF Expired(recs[KeyString(key)], t) THEN [cached |-> NilResult, err |-> ""]
    ELSE IF recs[KeyString(key)].PayloadHash # payloadHash
         THEN [cached |-> NilResult, err |-> ""]
    ELSE [cached |-> ExecResult(recs[KeyString(key)].Result,
                                recs[KeyString(key)].ErrorCode,
                                recs[KeyString(key)].Err),
          err    |-> ""]

\* IdempotencyStore.Check at time t: [cached, err] for (result, error)
Check(recs, t, key, payloadHash) ==
    IF ~Has(recs, KeyString(key)) THEN [cached |-> NilResult, err |-> ""]
    ELSE IF Expired(recs[KeyString(key)], t) THEN [cached |-> NilResult, err |-> ""]
    ELSE IF recs[KeyString(key)].PayloadHash # payloadHash
         THEN [cached |-> NilResult,
               err    |-> "idempotency key conflict: same key with different payload"]
    ELSE [cached |-> ExecResult(recs[KeyString(key)].Result,
                                recs[KeyString(key)].ErrorCode,
                                recs[KeyString(key)].Err),
          err    |-> ""]

\* IdempotencyStore.Store at time t
Store(recs, t, key, payloadHash, result) ==
    Put(recs, KeyString(key),
        [PayloadHash |-> payloadHash,
         Result      |-> result.Result,
         ErrorCode   |-> result.ErrorCode,
         Err         |-> result.Err,
         ExpiresAt   |-> t + TTL])

\* IdempotencyStore.Cleanup at time t
Cleanup(recs, t) ==
    [k \in {x \in DOMAIN recs : ~Expired(recs[x], t)} |-> recs[k]]

\* mapErrorCode looks for substrings of the lowercased message; each set
\* below holds the book's messages that contain the substrings of one test.
mapErrorCode(err) ==
    IF err \in {"order not found"} THEN ErrorCodeOrderNotFound
    ELSE IF err \in {"unauthorized: order belongs to different account"}
         THEN ErrorCodeUnauthorized
    ELSE IF err \in {"order already filled", "cannot cancel filled order"}
         THEN ErrorCodeOrderAlreadyFilled
    ELSE IF err \in {"order already canceled"} THEN ErrorCodeOrderAlreadyCanceled
    ELSE ErrorCodeInvalidArgument

\* What the file system does to the Append calls of one command: all
\* succeed (at = 0), or call number `at` fails in file.Write or in file.Sync.
NoFailure == [at |-> 0, how |-> "ok"]

\* One command of the shard's input set returns at most two events.
AppendCalls == {1, 2}

Fates == {NoFailure} \cup [at : AppendCalls, how : {"write", "sync"}]

\* FileEventStore.Append: the record is written, then synced.  A failed
\* Write leaves the file as it was; a failed Sync leaves the line unsynced.
AppendEvent(log, symbol, event, how) ==
    LET file == IF Has(log, symbol) THEN log[symbol] ELSE <<>>
    IN  IF how = "write" THEN [log |-> log, err |-> "failed to write event"]
        ELSE IF how = "sync"
             THEN [log |-> Put(log, symbol,
                               Append(file, [event |-> event, synced |-> FALSE])),
                   err |-> "failed to sync file"]
        ELSE [log |-> Put(log, symbol,
                          Append(file, [event |-> event, synced |-> TRUE])),
              err |-> ""]

\* The loop of executePlace / executeCancel over matchResult.Events that
\* goes on after an Append has failed
RECURSIVE persistEventsNoStop(_, _, _, _, _)
persistEventsNoStop(log, symbol, events, i, fate) ==
    IF i > Len(events) THEN [log |-> log, err |-> ""]
    ELSE LET F(a) == persistEventsNoStop(a.log, symbol, events, i + 1, fate)
         IN  Let1(F, AppendEvent(log, symbol, events[i],
                                 IF fate.at = i THEN fate.how ELSE "ok"))

\* The loop of executePlace / executeCancel over matchResult.Events, from
\* event i on: it stops at the first Append that returns an error.
RECURSIVE persistEvents(_, _, _, _, _)
persistEvents(log, symbol, events, i, fate) ==
    IF i > Len(events) THEN [log |-> log, err |-> ""]
    ELSE LET F(a) == IF a.err # "" THEN a
                     ELSE persistEvents(a.log, symbol, events, i + 1, fate)
         IN  Let1(F, AppendEvent(log, symbol, events[i],
                                 IF fate.at = i THEN fate.how ELSE "ok"))

\* The tail of executePlace / executeCancel once the book has answered r:
\* st = [books, eventLog]; returns [books, eventLog, resp].
finishExecute(st, symbol, r, fate) ==
    IF r.err # ""
    THEN [books |-> st.books, eventLog |-> st.eventLog,
          resp  |-> ExecResult(NilResult, mapErrorCode(r.err), r.err)]
    ELSE LET F(a) ==
               [books |-> st.books, eventLog |-> a.log,
                resp  |-> IF a.err # ""
                          THEN ExecResult(NilResult, ErrorCodeInternalError,
                                          "failed to persist event")
                          ELSE ExecResult(r.result, ErrorCodeNone, "")]
         IN  Let1(F, persistEvents(st.eventLog, symbol, r.result.Events, 1, fate))

\* Shard.executePlace: the book is created before PlaceLimit runs.
executePlace(st, envelope, fate) ==
    LET F(r) == finishExecute([books    |-> Put(st.books, envelope.Symbol, r.ob),
                               eventLog |-> st.eventLog],
                              envelope.Symbol, r, fate)
    IN  Let1(F, PlaceLimit(IF Has(st.books, envelope.Symbol)
                           THEN st.books[envelope.Symbol]
                           ELSE NewOrderBook(envelope.Symbol),
                           envelope.Payload))

\* Shard.executeCancel
executeCancel(st, envelope, fate) ==
    IF ~Has(st.books, envelope.Symbol)
    THEN [books |-> st.books, eventLog |-> st.eventLog,
          resp  |-> ExecResult(NilResult, ErrorCodeOrderNotFound,
                               "order book not found for symbol")]
    ELSE LET F(r) == finishExecute([books    |-> Put(st.books, envelope.Symbol, r.ob),
                                    eventLog |-> st.eventLog],
                                   envelope.Symbol, r, fate)
         IN  Let1(F, Cancel(st.books[envelope.Symbol], envelope.Payload))

\* QueryOrderRequest.Validate: order id, account and symbol are required,
\* as for a cancel
QueryValidate(req) ==
    IF req.OrderID = 0 THEN "order_id required"
    ELSE IF req.AccountID = "" THEN "account_id required"
    ELSE IF req.Symbol = "" THEN "symbol required"
    ELSE ""

\* Shard.executeQuery: the snapshot is the result; the book and the event
\* log are only read.
executeQuery(st, envelope) ==
    LET answer(result, code, err) ==
          [books |-> st.books, eventLog |-> st.eventLog,
           resp  |-> ExecResult(result, code, err)]
        F(r) ==
          IF r.err # "" THEN answer(NilResult, mapErrorCode(r.err), r.err)
          ELSE IF r.snapshot.AccountID # envelope.Payload.AccountID
               THEN answer(NilResult, ErrorCodeUnauthorized,
                           "unauthorized: order belongs to different account")
               ELSE answer(r.snapshot, ErrorCodeNone, "")
    IN  IF QueryValidate(envelope.Payload) # ""
        THEN answer(NilResult, ErrorCodeInvalidArgument,
                    QueryValidate(envelope.Payload))
        ELSE IF ~Has(st.books, envelope.Symbol)
        THEN answer(NilResult, ErrorCodeOrderNotFound,
                    "order book not found for symbol")
        ELSE Let1(F, GetOrderSnapshot(st.books[envelope.Symbol],
                                      envelope.Payload.OrderID))

\* Shard.processCommand at time t on st = [books, eventLog, records]:
\* returns [books, eventLog, records, resp, ran], ran telling whether the
\* command was executed.
processCommand(st, t, envelope, fate) ==
    LET idemKey == IdempotencyKey(envelope.AccountID, envelope.Symbol,
                                  envelope.CommandType, envelope.IdempotencyKey)
        F(chk) ==
          IF chk.err # ""
          THEN [books |-> st.books, eventLog |-> st.eventLog, records |-> st.records,
                resp  |-> ExecResult(NilResult, ErrorCodeDuplicateRequest, chk.err),
                ran   |-> FALSE]
          ELSE IF chk.cached # NilResult
          THEN [books |-> st.books, eventLog |-> st.eventLog, records |-> st.records,
                resp  |-> chk.cached, ran |-> FALSE]
          ELSE LET G(x) ==
                     [books |-> x.books, eventLog |-> x.eventLog,
                      records |-> Store(st.records, t, idemKey,
                                        envelope.PayloadHash, x.resp),
                      resp |-> x.resp, ran |-> TRUE]
               IN  Let1(G, IF envelope.CommandType = CommandTypePlace
                           THEN executePlace(st, envelope, fate)
                           ELSE IF envelope.CommandType = CommandTypeCancel
                           THEN executeCancel(st, envelope, fate)
                           ELSE IF envelope.CommandType = CommandTypeQuery
                           THEN executeQuery(st, envelope)
                           ELSE [books |-> st.books, eventLog |-> st.eventLog,
                                 resp  |-> ExecResult(NilResult,
                                             ErrorCodeInvalidArgument,
                                             "unknown command type")])
    IN  Let1(F, Check(st.records, t, idemKey, envelope.PayloadHash))

\* The envelope the API handlers build for a payload: account and symbol
\* are the payload's, the hash is computed from the payload.
Envelope(type, key, payload) ==
    [CommandType    |-> type,
     IdempotencyKey |-> key,
     Symbol         |-> payload.Symbol,
     AccountID      |-> payload.AccountID,
     PayloadHash    |-> ComputePayloadHash(payload),
     Payload        |-> payload]

ShardOrderIDs == {1, 2}

PlaceKeys == {<<a, k>> \in ShardAccounts \X {"k1", IdemColon} :
                 k \in ShardIdemKeys(a)}

\* Order 1 sells and order 2 buys one unit at price 1, so they can trade.
PlaceEnvelopes ==
    {Envelope(CommandTypePlace, k,
              PlaceReq(n, a, BTC, IF n = 1 THEN SideSell ELSE SideBuy, 1, 1)) :
        n \in ShardOrderIDs, <<a, k>> \in PlaceKeys}

CancelEnvelopes ==
    {Envelope(CommandTypeCancel, "k1", CancelReq(n, a, BTC)) :
        n \in ShardOrderIDs, a \in ShardAccounts}

KeyOf(envelope) ==
    IdempotencyKey(envelope.AccountID, envelope.Symbol, envelope.CommandType,
                   envelope.IdempotencyKey)

NoProc == [n |-> 0, envelope |-> [nil |-> TRUE], resp |-> NilResult, ran |-> FALSE]

InitShard ==
    /\ books = EmptyMap
    /\ emitted = EmptyMap
    /\ lastCall = NoCall
    /\ records = EmptyMap
    /\ eventLog = EmptyMap
    /\ now = 0
    /\ lastProc = NoProc
    /\ owner = EmptyMap
    /\ issued = EmptyMap
    /\ ConcIdle
    /\ LedgerIdle
    /\ ProjIdle /\ SnapIdle /\ ReplyIdle /\ StopIdle

\* What processCommand does to the shard for one envelope, with the
\* history of it.  lost is TRUE only where another thread was inside the
\* books at the same time and its writes to s.books replaced this one's.
ProcessEffect(envelope, lost) ==
    \E fate \in Fates :
    \E x \in {processCommand([books |-> books, eventLog |-> eventLog,
                              records |-> records], now, envelope, fate)} :
       /\ books' = IF lost THEN books ELSE x.books
       /\ eventLog' = x.eventLog
       /\ records' = x.records
       /\ lastProc' = [n |-> lastProc.n + 1, envelope |-> envelope,
                       resp |-> x.resp, ran |-> x.ran]
       /\ owner' = IF x.ran THEN Put(owner, KeyString(KeyOf(envelope)),
                                     KeyOf(envelope))
                   ELSE owner
       /\ issued' = IF x.ran THEN Put(issued, KeyOf(envelope), x.resp)
                    ELSE issued

\* One round of the event loop's command case, run to its end: the
\* executor takes the envelope, processCommand answers it.
Process(envelope) ==
    /\ lastProc.n < MaxCommands
    /\ ProcessEffect(envelope, FALSE)
    /\ UNCHANGED <<replyVars, snapVars, projVars, stopVars, ledgerVars, emitted, lastCall, now, concVars>>

ProcessPlace == \E envelope \in PlaceEnvelopes : Process(envelope)

ProcessCancel == \E envelope \in CancelEnvelopes : Process(envelope)

\* The wall clock moves on.
Tick ==
    /\ now < MaxNow
    /\ now' = now + 1
    /\ UNCHANGED <<replyVars, snapVars, projVars, stopVars, ledgerVars, bookVars, records, eventLog, lastProc, owner, issued, concVars>>

\* The event loop's ticker case
CleanupTick ==
    /\ records' = Cleanup(records, now)
    /\ records' # records
    /\ UNCHANGED <<replyVars, snapVars, projVars, stopVars, ledgerVars, bookVars, eventLog, now, lastProc, owner, issued, concVars>>

NextShard == ProcessPlace \/ ProcessCancel \/ Tick \/ CleanupTick

SpecShard == InitShard /\ [][NextShard]_vars

-----------------------------------------------------------------------------
(* Properties of the shard, checked under SpecShard                        *)

\* A step in which processCommand ran for lastProc'.envelope
ProcStep == lastProc'.n = lastProc.n + 1

\* The key string processCommand builds for an envelope
KeyStringOf(envelope) == KeyString(KeyOf(envelope))

\* The store holds a record under the envelope's key string that has not
\* expired.
LiveEntry(envelope) ==
    /\ Has(records, KeyStringOf(envelope))
    /\ ~Expired(records[KeyStringOf(envelope)], now)

\* C6: a PLACE or CANCEL submitted again with the key (account, symbol,
\* kind, idempotency key) and the payload hash of an earlier one, while the
\* record that one stored is live, gets a result equal to the one the
\* earlier execution returned, and the books (event sequences included),
\* the event log and the cache stay as they were.
C6_IdempotentReplay ==
    [][(/\ ProcStep
        /\ LiveEntry(lastProc'.envelope)
        /\ owner[KeyStringOf(lastProc'.envelope)] = KeyOf(lastProc'.envelope)
        /\ records[KeyStringOf(lastProc'.envelope)].PayloadHash
              = lastProc'.envelope.PayloadHash)
       => (/\ lastProc'.resp = issued[KeyOf(lastProc'.envelope)]
           /\ books' = books
           /\ eventLog' = eventLog
           /\ records' = records)]_vars

\* A successful place has just been answered again, from the cache.
C6_Witness ==
    /\ lastProc.n = 2
    /\ ~lastProc.ran
    /\ lastProc.envelope.CommandType = CommandTypePlace
    /\ lastProc.resp.ErrorCode = ErrorCodeNone
    /\ lastProc.resp = issued[KeyOf(lastProc.envelope)]
    /\ Len(lastProc.resp.Result.Events) >= 1

\* C7: a command that finds a live record under its key with another
\* payload hash is answered DUPLICATE_REQUEST and is not executed: books,
\* event log and the record (hash, cached result, expiry) stay as they were.
C7_ConflictFrame ==
    [][(/\ ProcStep
        /\ LiveEntry(lastProc'.envelope)
        /\ records[KeyStringOf(lastProc'.envelope)].PayloadHash
              # lastProc'.envelope.PayloadHash)
       => (/\ lastProc'.resp.ErrorCode = ErrorCodeDuplicateRequest
           /\ lastProc'.resp.Result = NilResult
           /\ books' = books
           /\ eventLog' = eventLog
           /\ Has(records', KeyStringOf(lastProc'.envelope))
           /\ records'[KeyStringOf(lastProc'.envelope)]
                 = records[KeyStringOf(lastProc'.envelope)])]_vars

\* A command has just been refused for reusing its own key with another
\* payload, after the first command under that key had built a book.
C7_Witness ==
    /\ lastProc.n = 2
    /\ lastProc.resp.ErrorCode = ErrorCodeDuplicateRequest
    /\ Has(owner, KeyStringOf(lastProc.envelope))
    /\ owner[KeyStringOf(lastProc.envelope)] = KeyOf(lastProc.envelope)
    /\ records[KeyStringOf(lastProc.envelope)].PayloadHash
          # lastProc.envelope.PayloadHash
    /\ Has(books, BTC)

\* C8: commands whose (account, symbol, kind, idempotency key) differ never
\* share a cache entry: whenever a command finds a live record under its
\* key string (a hit or a conflict), that record was stored for a command
\* with the same four components.
C8_NoSharedEntry ==
    [][(ProcStep /\ LiveEntry(lastProc'.envelope))
       => owner[KeyStringOf(lastProc'.envelope)] = KeyOf(lastProc'.envelope)]_vars

\* C10: a place or cancel answered with a successful result has every
\* event of that result in the symbol's log, written and synced, by the
\* time processCommand returns the result.
C10_DurableBeforeResponse ==
    (lastProc.n > 0 /\ lastProc.resp.ErrorCode = ErrorCodeNone)
    => /\ lastProc.resp.Result # NilResult
       /\ Has(eventLog, lastProc.envelope.Symbol)
       /\ \A i \in 1..Len(lastProc.resp.Result.Events) :
             \E j \in 1..Len(eventLog[lastProc.envelope.Symbol]) :
                eventLog[lastProc.envelope.Symbol][j]
                   = [event  |-> lastProc.resp.Result.Events[i],
                      synced |-> TRUE]

\* A place that traded has been answered with success while the log also
\* holds a line whose sync failed.
C10_Witness ==
    /\ lastProc.n > 0
    /\ lastProc.ran
    /\ lastProc.resp.ErrorCode = ErrorCodeNone
    /\ Len(lastProc.resp.Result.Events) = 2
    /\ \E j \in 1..Len(eventLog[BTC]) : ~eventLog[BTC][j].synced

\* The sequences of the lines of a symbol's log, in file order
LoggedSequences(symbol) ==
    [i \in 1..Len(eventLog[symbol]) |-> eventLog[symbol][i].event.SequenceValue]

\* C11: the lines of every symbol's log carry the sequences 1, 2, ..., n in
\* file order, without gap or repeat, also after commands one of whose
\* appends failed.
C11_LogDense ==
    \A symbol \in DOMAIN eventLog :
        \A i \in 1..Len(eventLog[symbol]) : LoggedSequences(symbol)[i] = i

\* Every event of the command's result is in the symbol's log, written and
\* synced, exactly once.
LoggedOnce(symbol, result) ==
    /\ Has(eventLog, symbol)
    /\ \A i \in 1..Len(result.Events) :
          Cardinality({j \in 1..Len(eventLog[symbol]) :
                          eventLog[symbol][j] = [event  |-> result.Events[i],
                                                 synced |-> TRUE]}) = 1

\* C12: a command answered INTERNAL_ERROR because an append failed and then
\* submitted again with the same key and payload is answered with a
\* successful result (the cached one, or that of a fresh execution), and
\* the log then holds the events of that result once.
C12_RetryAfterAppendFailure ==
    [][(/\ ProcStep
        /\ lastProc.n > 0
        /\ lastProc.resp.ErrorCode = ErrorCodeInternalError
        /\ lastProc'.envelope = lastProc.envelope)
       => (/\ lastProc'.resp.ErrorCode = ErrorCodeNone
           /\ LoggedOnce(lastProc'.envelope.Symbol, lastProc'.resp.Result))]_vars

-----------------------------------------------------------------------------
(* Threads: submitters calling Shard.Submit, the shard's event loop, and   *)
(* the thread that calls Engine.RecoverSymbol.  NewEngine has started the  *)
(* event loop before any of them can reach the shard.                      *)

MaxSubmits == 1         \* Submit calls of each submitter
QueueSize  == 1         \* capacity of Shard.cmdQueue

Submitters == {"s1", "s2"}
Executor   == "eventLoop"
Recoverer  == "recovery"

\* OrderBook.SetEventSequence
SetEventSequence(ob, seq) == [ob EXCEPT !.eventSeq = seq]

\* Shard.replayOrderAccepted: [ob, err]
replayOrderAccepted(book, event) ==
    LET F(r) == [ob |-> r.ob, err |-> r.err]
    IN  Let1(F, PlaceLimit(book, [OrderID       |-> event.OrderID,
                                  ClientOrderID |-> event.ClientOrderID,
                                  AccountID     |-> event.AccountID,
                                  Symbol        |-> event.SymbolValue,
                                  Side          |-> event.Side,
                                  PriceInt      |-> event.Price,
                                  QuantityInt   |-> event.Quantity]))

\* Shard.replayOrderCanceled: errors whose lowercased message contains
\* "not found" or "already" are dropped.
replayOrderCanceled(book, event) ==
    LET F(r) == [ob  |-> r.ob,
                 err |-> IF r.err \in {"order not found", "order already filled",
                                       "order already canceled"}
                         THEN "" ELSE r.err]
    IN  Let1(F, Cancel(book, CancelReq(event.OrderID, event.AccountID,
                                       event.SymbolValue)))

\* The loop of ReplayEvents from event i on: [ob, err, maxSeq]
RECURSIVE replayLoop(_, _, _, _)
replayLoop(book, events, i, maxSeq) ==
    IF i > Len(events) THEN [ob |-> book, err |-> "", maxSeq |-> maxSeq]
    ELSE LET seq == IF events[i].SequenceValue > maxSeq
                    THEN events[i].SequenceValue ELSE maxSeq
             F(r) == IF r.err # ""
                     THEN [ob |-> r.ob, err |-> "failed to replay", maxSeq |-> seq]
                     ELSE replayLoop(r.ob, events, i + 1, seq)
         IN  IF events[i].Type = "OrderAccepted"
             THEN Let1(F, replayOrderAccepted(book, events[i]))
             ELSE IF events[i].Type = "OrderMatched"
             THEN replayLoop(book, events, i + 1, seq)
             ELSE IF events[i].Type = "OrderCanceled"
             THEN Let1(F, replayOrderCanceled(book, events[i]))
             ELSE [ob |-> book, err |-> "unknown event type", maxSeq |-> seq]

\* a replay that rebuilds the orders and leaves the trade counter at zero
ReplayEventsForgetTrades(bks, symbol, events) ==
    IF Len(events) = 0 THEN [books |-> bks, err |-> ""]
    ELSE LET F(r) == [books |-> Put(bks, symbol,
                                    IF r.err # "" THEN r.ob
                                    ELSE [SetEventSequence(r.ob, r.maxSeq)
                                            EXCEPT !.tradeSeq = 0]),
                      err   |-> r.err]
         IN  Let1(F, replayLoop(IF Has(bks, symbol) THEN bks[symbol]
                                ELSE NewOrderBook(symbol),
                                events, 1, 0))

\* Shard.ReplayEvents: [books, err]
ReplayEvents(bks, symbol, events) ==
    IF Len(events) = 0 THEN [books |-> bks, err |-> ""]
    ELSE LET F(r) == [books |-> Put(bks, symbol,
                                    IF r.err # "" THEN r.ob
                                    ELSE SetEventSequence(r.ob, r.maxSeq)),
                      err   |-> r.err]
         IN  Let1(F, replayLoop(IF Has(bks, symbol) THEN bks[symbol]
                                ELSE NewOrderBook(symbol),
                                events, 1, 0))

\* Logs an earlier run of the engine has written for BTC: one resting sell,
\* the sell and a buy that fills it, the sell and its cancel.
LoggedSell == PlaceLimit(NewOrderBook(BTC), PlaceReq(1, "a1", BTC, SideSell, 1, 1))

LoggedBuy == PlaceLimit(LoggedSell.ob, PlaceReq(2, "a1", BTC, SideBuy, 1, 1))

LoggedCancel == Cancel(LoggedSell.ob, CancelReq(1, "a1", BTC))

RecoveryBatches ==
    {LoggedSell.result.Events,
     LoggedSell.result.Events \o LoggedBuy.result.Events,
     LoggedSell.result.Events \o LoggedCancel.result.Events}

\* The commands submitters send: two places that can trade and a cancel
ConcEnvelopes ==
    {Envelope(CommandTypePlace, "k1", PlaceReq(1, "a1", BTC, SideSell, 1, 1)),
     Envelope(CommandTypePlace, IdemColon, PlaceReq(2, "a1", BTC, SideBuy, 1, 1)),
     Envelope(CommandTypeCancel, "k1", CancelReq(1, "a1", BTC))}

InitConc ==
    /\ books = EmptyMap
    /\ emitted = EmptyMap
    /\ lastCall = NoCall
    /\ records = EmptyMap
    /\ eventLog = EmptyMap
    /\ now = 0
    /\ lastProc = NoProc
    /\ owner = EmptyMap
    /\ issued = EmptyMap
    /\ LedgerIdle
    /\ ProjIdle /\ SnapIdle /\ ReplyIdle /\ StopIdle
    /\ cmdQueue = <<>>
    /\ threads = [t \in Submitters \cup {Executor, Recoverer} |->
                    IF t \in Submitters
                    THEN [pc |-> "idle", sent |-> 0, resp |-> NilResult]
                    ELSE IF t = Executor THEN [pc |-> "select"]
                    ELSE [pc |-> "idle"]]
    /\ enqueued = <<>>
    /\ executed = <<>>
    /\ delivered = <<>>
    /\ inBook = {}
    /\ race = "none"

\* A thread enters code that reads and writes s.books and the books.
Enter(t) ==
    /\ inBook' = inBook \cup {t}
    /\ race' = IF inBook # {} THEN "racing" ELSE race

\* A thread leaves it.
Leave(t) ==
    /\ inBook' = inBook \ {t}
    /\ race' = IF inBook \ {t} = {} THEN "none" ELSE race

\* The other outcome of that data race: the writes to s.books of the thread
\* that leaves are lost (both threads found no book for the symbol, each
\* made one, and the other's assignment to s.books[symbol] came last).
LostWrites == IF race = "racing" THEN BOOLEAN ELSE {FALSE}

\* Shard.Submit up to the send on cmdQueue, which blocks while the queue
\* is full.
SubmitSend(t) ==
    /\ race # "fatal"
    /\ threads[t].pc = "idle"
    /\ threads[t].sent < MaxSubmits
    /\ Len(cmdQueue) < QueueSize
    /\ \E envelope \in ConcEnvelopes :
          cmdQueue' = Append(cmdQueue, [envelope |-> envelope, respChan |-> t])
    /\ enqueued' = Append(enqueued, <<t, threads[t].sent + 1>>)
    /\ threads' = [threads EXCEPT ![t].pc = "waiting", ![t].sent = @ + 1]
    /\ UNCHANGED <<replyVars, snapVars, projVars, stopVars, ledgerVars, bookVars, shardVars, executed, delivered, inBook, race>>

\* Shard.Submit: the receive from respChan
SubmitReturn(t) ==
    /\ race # "fatal"
    /\ threads[t].pc = "answered"
    /\ delivered' = Append(delivered, <<t, threads[t].sent>>)
    /\ threads' = [threads EXCEPT ![t].pc = "idle"]
    /\ UNCHANGED <<replyVars, snapVars, projVars, stopVars, ledgerVars, bookVars, shardVars, cmdQueue, enqueued, executed, inBook, race>>

\* eventLoop: the receive from cmdQueue; processCommand begins.
ExecTake ==
    /\ race # "fatal"
    /\ threads[Executor].pc = "select"
    /\ cmdQueue # <<>>
    /\ cmdQueue' = Tail(cmdQueue)
    /\ threads' = [threads EXCEPT ![Executor] =
                      [pc |-> "processing", req |-> Head(cmdQueue)]]
    /\ executed' = Append(executed, <<Head(cmdQueue).respChan,
                                      threads[Head(cmdQueue).respChan].sent>>)
    /\ Enter(Executor)
    /\ UNCHANGED <<replyVars, snapVars, projVars, stopVars, ledgerVars, bookVars, shardVars, enqueued, delivered>>

\* eventLoop: processCommand returns and the result goes to respChan.
ExecFinish ==
    /\ race # "fatal"
    /\ threads[Executor].pc = "processing"
    /\ \E lost \in LostWrites : ProcessEffect(threads[Executor].req.envelope, lost)
    /\ threads' = [threads EXCEPT
                      ![Executor] = [pc |-> "select"],
                      ![threads[Executor].req.respChan].pc = "answered",
                      ![threads[Executor].req.respChan].resp = lastProc'.resp]
    /\ Leave(Executor)
    /\ UNCHANGED <<replyVars, snapVars, projVars, stopVars, ledgerVars, emitted, lastCall, now, cmdQueue, enqueued, executed, delivered>>

\* eventLoop: the ticker case
ExecCleanup ==
    /\ race # "fatal"
    /\ threads[Executor].pc = "select"
    /\ records' = Cleanup(records, now)
    /\ records' # records
    /\ UNCHANGED <<replyVars, snapVars, projVars, stopVars, ledgerVars, bookVars, eventLog, now, lastProc, owner, issued, concVars>>

\* Engine.RecoverSymbol: the caller's thread enters Shard.ReplayEvents.
RecoverBegin ==
    /\ race # "fatal"
    /\ threads[Recoverer].pc = "idle"
    /\ \E events \in RecoveryBatches :
          threads' = [threads EXCEPT ![Recoverer] =
                         [pc |-> "replaying", events |-> events]]
    /\ Enter(Recoverer)
    /\ UNCHANGED <<replyVars, snapVars, projVars, stopVars, ledgerVars, bookVars, shardVars, cmdQueue, enqueued, executed, delivered>>

\* Shard.ReplayEvents returns.
RecoverEnd ==
    /\ race # "fatal"
    /\ threads[Recoverer].pc = "replaying"
    /\ \E lost \in LostWrites :
          books' = IF lost THEN books
                   ELSE ReplayEvents(books, BTC, threads[Recoverer].events).books
    /\ threads' = [threads EXCEPT ![Recoverer] = [pc |-> "done"]]
    /\ Leave(Recoverer)
    /\ UNCHANGED <<replyVars, snapVars, projVars, stopVars, ledgerVars, emitted, lastCall, shardVars, cmdQueue, enqueued, executed,
                   delivered>>

\* Two threads inside the books at once, with no lock between them, are a
\* data race: the Go runtime may stop the process ("fatal error:
\* concurrent map writes").
RaceFatal ==
    /\ race = "racing"
    /\ race' = "fatal"
    /\ UNCHANGED <<replyVars, snapVars, projVars, stopVars, ledgerVars, bookVars, shardVars, cmdQueue, threads, enqueued, executed,
                   delivered, inBook>>

NextConc ==
    \/ \E t \in Submitters : SubmitSend(t)
    \/ \E t \in Submitters : SubmitReturn(t)
    \/ ExecTake
    \/ ExecFinish
    \/ ExecCleanup
    \/ Tick
    \/ RecoverBegin
    \/ RecoverEnd
    \/ RaceFatal

SpecConc == InitConc /\ [][NextConc]_vars

-----------------------------------------------------------------------------
(* Properties of the threads, checked under SpecConc                       *)

IsPrefix(p, q) == Len(p) <= Len(q) /\ \A i \in 1..Len(p) : p[i] = q[i]

\* C9: requests are executed one at a time in the order they entered the
\* queue, and only the shard's executor is ever inside the code that
\* mutates the shard's books (replay during recovery included), so no two
\* threads are inside it at once.
C9_SingleWriter ==
    /\ IsPrefix(executed, enqueued)
    /\ inBook \subseteq {Executor}
    /\ Cardinality(inBook) <= 1

-----------------------------------------------------------------------------
(* account: the in-memory ledger (MemoryService)                           *)
(*  - s.balances is account -> asset -> Balance, s.freezes is order id ->  *)
(*    FreezeRecord, s.appliedTrades the set of "symbol|trade id" keys;     *)
(*  - a ledger operator takes the service's state and returns the state    *)
(*    the call leaves behind together with the error it returns;           *)
(*  - amounts stay far below the range of int64.                           *)

QuantityScale == 6      \* symbolspec.specs[...].QuantityScale

ErrAccountNotFound == "account not found"
ErrInvalidSymbol   == "invalid symbol format"
ErrInvalidAmount   == "invalid amount"
ErrInsufficientBalance == "insufficient balance"

Unsupported == "DOGE-USDT"      \* parses, but has no symbol spec
Unparsable  == "BTCUSDT"        \* does not split into two parts

\* strings.Split(symbol, "-")
DashParts(symbol) ==
    CASE symbol = BTC         -> <<"BTC", "USDT">>
      [] symbol = ETH         -> <<"ETH", "USDT">>
      [] symbol = Unsupported -> <<"DOGE", "USDT">>
      [] OTHER                -> <<symbol>>

ParseSymbol(symbol) ==
    IF Len(DashParts(symbol)) # 2
    THEN [base |-> "", quote |-> "", err |-> ErrInvalidSymbol]
    ELSE [base |-> DashParts(symbol)[1], quote |-> DashParts(symbol)[2], err |-> ""]

\* symbolspec.Get: only the error and QuantityScale are used by the ledger.
SymbolSpecGet(symbol) ==
    IF symbol \in {BTC, ETH, "SOL-USDT"}
    THEN [QuantityScale |-> QuantityScale, err |-> ""]
    ELSE [QuantityScale |-> 0, err |-> "unsupported symbol"]

RECURSIVE Pow10(_)
Pow10(scale) == IF scale = 0 THEN 1 ELSE 10 * Pow10(scale - 1)

\* ceil(priceInt * qtyInt / 10^qtyScale), an error unless it is positive.
quoteAmountFromTrade(priceInt, qtyInt, qtyScale) ==
    IF priceInt <= 0 \/ qtyInt <= 0
    THEN [amount |-> 0, err |-> ErrInvalidAmount]
    ELSE LET product   == priceInt * qtyInt
             divisor   == Pow10(qtyScale)
             quotient  == product \div divisor
             remainder == product % divisor
             amount    == IF remainder > 0 THEN quotient + 1 ELSE quotient
         IN  IF amount <= 0
             THEN [amount |-> 0, err |-> ErrInvalidAmount]
             ELSE [amount |-> amount, err |-> ""]

freezeAmountForPlace(symbol, base, quote, side, priceInt, qtyInt) ==
    IF side = SideBuy
    THEN IF SymbolSpecGet(symbol).err # ""
         THEN [asset |-> "", amount |-> 0, err |-> SymbolSpecGet(symbol).err]
         ELSE LET q == quoteAmountFromTrade(priceInt, qtyInt,
                                            SymbolSpecGet(symbol).QuantityScale)
              IN  IF q.err # ""
                  THEN [asset |-> "", amount |-> 0, err |-> q.err]
                  ELSE [asset |-> quote, amount |-> q.amount, err |-> ""]
    ELSE [asset |-> base, amount |-> qtyInt, err |-> ""]

PlaceIntentValidate(p) ==
    IF p.AccountID = "" THEN "account_id is required"
    ELSE IF p.OrderID = 0 THEN "order_id is required"
    ELSE IF p.Symbol = "" THEN "symbol is required"
    ELSE IF p.Side # SideBuy /\ p.Side # SideSell THEN "invalid side"
    ELSE IF p.PriceInt <= 0 THEN "price must be positive"
    ELSE IF p.QtyInt <= 0 THEN "quantity must be positive"
    ELSE ""

CancelIntentValidate(c) ==
    IF c.AccountID = "" THEN "account_id is required"
    ELSE IF c.OrderID = 0 THEN "order_id is required"
    ELSE IF c.Symbol = "" THEN "symbol is required"
    ELSE ""

ZeroBalance == [Available |-> 0, Frozen |-> 0]

NewMemoryService == [balances |-> EmptyMap, freezes |-> EmptyMap, appliedTrades |-> {}]

LedgerReturn(st, err) == [ledger |-> st, err |-> err]

getOrCreateAccountBalances(st, accountID) ==
    IF Has(st.balances, accountID)
    THEN st
    ELSE [st EXCEPT !.balances = Put(@, accountID, EmptyMap)]

\* The account's map is present (getOrCreateAccountBalances ran before).
getOrCreateAssetBalance(st, accountID, asset) ==
    IF Has(st.balances[accountID], asset)
    THEN st
    ELSE [st EXCEPT !.balances[accountID] = Put(@, asset, ZeroBalance)]

GetBalance(st, accountID, asset) ==
    IF ~Has(st.balances, accountID) THEN ZeroBalance
    ELSE IF ~Has(st.balances[accountID], asset) THEN ZeroBalance
    ELSE st.balances[accountID][asset]

SetBalance(st, accountID, asset, balance) ==
    [getOrCreateAccountBalances(st, accountID)
        EXCEPT !.balances[accountID] =
            Put(@, asset, [Available |-> balance.Available, Frozen |-> balance.Frozen])]

\* freezeLocked without the balance check of lines 89-97.
freezeUnchecked(st, intent, assetToFreeze, amountToFreeze) ==
    LET created == getOrCreateAssetBalance(
                        getOrCreateAccountBalances(st, intent.AccountID),
                        intent.AccountID, assetToFreeze)
        balance == created.balances[intent.AccountID][assetToFreeze]
    IN  IF Has(st.freezes, intent.OrderID)
        THEN LedgerReturn(st, "")
        ELSE LedgerReturn(
                [created EXCEPT
                    !.balances[intent.AccountID][assetToFreeze] =
                        [Available |-> balance.Available - amountToFreeze,
                         Frozen    |-> balance.Frozen + amountToFreeze],
                    !.freezes = Put(@, intent.OrderID,
                        [AccountID            |-> intent.AccountID,
                         Asset                |-> assetToFreeze,
                         OriginalFrozenAmount |-> amountToFreeze,
                         FrozenAmount         |-> amountToFreeze])],
                "")

\* CheckAndFreezeForPlace from s.mu.Lock() on: the intent is valid and
\* asks to freeze amountToFreeze of assetToFreeze.
freezeLocked(st, intent, assetToFreeze, amountToFreeze) ==
    IF Has(st.freezes, intent.OrderID)
    THEN IF /\ st.freezes[intent.OrderID].AccountID = intent.AccountID
            /\ st.freezes[intent.OrderID].Asset = assetToFreeze
            /\ st.freezes[intent.OrderID].OriginalFrozenAmount = amountToFreeze
         THEN LedgerReturn(st, "")
         ELSE LedgerReturn(st, "order_id already exists with different parameters")
    ELSE LET created == getOrCreateAssetBalance(
                            getOrCreateAccountBalances(st, intent.AccountID),
                            intent.AccountID, assetToFreeze)
             balance == created.balances[intent.AccountID][assetToFreeze]
         IN  IF balance.Available < amountToFreeze
             THEN LedgerReturn(created, ErrInsufficientBalance)
             ELSE LedgerReturn(
                    [created EXCEPT
                        !.balances[intent.AccountID][assetToFreeze] =
                            [Available |-> balance.Available - amountToFreeze,
                             Frozen    |-> balance.Frozen + amountToFreeze],
                        !.freezes = Put(@, intent.OrderID,
                            [AccountID            |-> intent.AccountID,
                             Asset                |-> assetToFreeze,
                             OriginalFrozenAmount |-> amountToFreeze,
                             FrozenAmount         |-> amountToFreeze])],
                    "")

CheckAndFreezeForPlace(st, intent) ==
    IF PlaceIntentValidate(intent) # ""
    THEN LedgerReturn(st, PlaceIntentValidate(intent))
    ELSE IF ParseSymbol(intent.Symbol).err # ""
    THEN LedgerReturn(st, ParseSymbol(intent.Symbol).err)
    ELSE IF SymbolSpecGet(intent.Symbol).err # ""
    THEN LedgerReturn(st, SymbolSpecGet(intent.Symbol).err)
    ELSE LET f == freezeAmountForPlace(intent.Symbol,
                                       ParseSymbol(intent.Symbol).base,
                                       ParseSymbol(intent.Symbol).quote,
                                       intent.Side, intent.PriceInt, intent.QtyInt)
         IN  IF f.err # "" THEN LedgerReturn(st, f.err)
             ELSE IF f.amount <= 0 THEN LedgerReturn(st, ErrInvalidAmount)
             ELSE freezeLocked(st, intent, f.asset, f.amount)

\* ReleaseOnCancel from s.mu.Lock() on.
releaseLocked(st, intent) ==
    IF ~Has(st.freezes, intent.OrderID) THEN LedgerReturn(st, "")
    ELSE LET freeze == st.freezes[intent.OrderID]
         IN  IF freeze.AccountID # intent.AccountID
             THEN LedgerReturn(st, "account mismatch")
             ELSE IF ~Has(st.balances, freeze.AccountID)
             THEN LedgerReturn(st, ErrAccountNotFound)
             ELSE IF ~Has(st.balances[freeze.AccountID], freeze.Asset)
             THEN LedgerReturn(st, "asset balance not found")
             ELSE IF freeze.FrozenAmount <= 0
             THEN LedgerReturn(st, "")
             ELSE IF st.balances[freeze.AccountID][freeze.Asset].Frozen < freeze.FrozenAmount
             THEN LedgerReturn(st, "frozen balance underflow")
             ELSE LedgerReturn(
                    [st EXCEPT
                        !.balances[freeze.AccountID][freeze.Asset] =
                            [Available |-> @.Available + freeze.FrozenAmount,
                             Frozen    |-> @.Frozen - freeze.FrozenAmount],
                        !.freezes[intent.OrderID].FrozenAmount = 0],
                    "")

ReleaseOnCancel(st, intent) ==
    IF CancelIntentValidate(intent) # ""
    THEN LedgerReturn(st, CancelIntentValidate(intent))
    ELSE releaseLocked(st, intent)

\* intent.Symbol + "|" + intent.TradeID: no supported symbol holds a "|",
\* so the pair stands for the string.
TradeKey(intent) == <<intent.Symbol, intent.TradeID>>

\* ApplyTrade, last step: both freeze trackers are settled.
tradeMark(st, intent) ==
    LedgerReturn([st EXCEPT !.appliedTrades = @ \cup {TradeKey(intent)}], "")

\* ApplyTrade, the seller's freeze tracker.
tradeSellerFreeze(st, intent, baseAmount) ==
    IF ~Has(st.freezes, intent.SellerOrderID)
    THEN tradeMark(st, intent)
    ELSE IF st.freezes[intent.SellerOrderID].FrozenAmount < baseAmount
    THEN LedgerReturn(st, "seller freeze record underflow")
    ELSE tradeMark([st EXCEPT !.freezes[intent.SellerOrderID].FrozenAmount = @ - baseAmount],
                   intent)

\* ApplyTrade, the buyer's freeze tracker.
tradeBuyerFreeze(st, intent, quoteAmount, baseAmount) ==
    IF ~Has(st.freezes, intent.BuyerOrderID)
    THEN tradeSellerFreeze(st, intent, baseAmount)
    ELSE IF st.freezes[intent.BuyerOrderID].FrozenAmount < quoteAmount
    THEN LedgerReturn(st, "buyer freeze record underflow")
    ELSE tradeSellerFreeze(
            [st EXCEPT !.freezes[intent.BuyerOrderID].FrozenAmount = @ - quoteAmount],
            intent, baseAmount)

\* tradeSellerHave crediting the seller with baseAmount of QUOTE.
tradeSellerMiscredit(st, intent, base, quote, quoteAmount, baseAmount) ==
    IF st.balances[intent.SellerAccountID][base].Frozen < baseAmount
    THEN LedgerReturn(st, "insufficient seller frozen base for trade")
    ELSE Let1(LAMBDA paid :
                Let1(LAMBDA got : tradeBuyerFreeze(got, intent, quoteAmount, baseAmount),
                     [paid EXCEPT !.balances[intent.SellerAccountID][quote].Available =
                                      @ + baseAmount]),
              [st EXCEPT !.balances[intent.SellerAccountID][base].Frozen = @ - baseAmount])

\* ApplyTrade, the seller's balances; st has them (created on demand).
tradeSellerHave(st, intent, base, quote, quoteAmount, baseAmount) ==
    IF st.balances[intent.SellerAccountID][base].Frozen < baseAmount
    THEN LedgerReturn(st, "insufficient seller frozen base for trade")
    ELSE Let1(LAMBDA paid :
                Let1(LAMBDA got : tradeBuyerFreeze(got, intent, quoteAmount, baseAmount),
                     [paid EXCEPT !.balances[intent.SellerAccountID][quote].Available =
                                      @ + quoteAmount]),
              [st EXCEPT !.balances[intent.SellerAccountID][base].Frozen = @ - baseAmount])

tradeSeller(st, intent, base, quote, quoteAmount, baseAmount) ==
    Let1(LAMBDA have : tradeSellerHave(have, intent, base, quote, quoteAmount, baseAmount),
         getOrCreateAssetBalance(
            getOrCreateAssetBalance(
                getOrCreateAccountBalances(st, intent.SellerAccountID),
                intent.SellerAccountID, base),
            intent.SellerAccountID, quote))

\* ApplyTrade, the buyer's balances; st has them (created on demand).
tradeBuyerHave(st, intent, base, quote, quoteAmount, baseAmount) ==
    IF st.balances[intent.BuyerAccountID][quote].Frozen < quoteAmount
    THEN LedgerReturn(st, "insufficient buyer frozen quote for trade")
    ELSE Let1(LAMBDA paid :
                Let1(LAMBDA got : tradeSeller(got, intent, base, quote, quoteAmount, baseAmount),
                     [paid EXCEPT !.balances[intent.BuyerAccountID][base].Available =
                                      @ + baseAmount]),
              [st EXCEPT !.balances[intent.BuyerAccountID][quote].Frozen = @ - quoteAmount])

tradeBuyer(st, intent, base, quote, quoteAmount, baseAmount) ==
    Let1(LAMBDA have : tradeBuyerHave(have, intent, base, quote, quoteAmount, baseAmount),
         getOrCreateAssetBalance(
            getOrCreateAssetBalance(
                getOrCreateAccountBalances(st, intent.BuyerAccountID),
                intent.BuyerAccountID, quote),
            intent.BuyerAccountID, base))

\* tradeLocked without the applied-trade lookup of lines 192-195.
tradeLockedAgain(st, intent, base, quote, qtyScale) ==
    LET q == quoteAmountFromTrade(intent.PriceInt, intent.QuantityInt, qtyScale)
    IN  IF q.err # ""
        THEN LedgerReturn(st, q.err)
        ELSE tradeBuyer(st, intent, base, quote, q.amount, intent.QuantityInt)

\* ApplyTrade from s.mu.Lock() on.
tradeLocked(st, intent, base, quote, qtyScale) ==
    IF TradeKey(intent) \in st.appliedTrades
    THEN LedgerReturn(st, "")
    ELSE LET q == quoteAmountFromTrade(intent.PriceInt, intent.QuantityInt, qtyScale)
         IN  IF q.err # ""
             THEN LedgerReturn(st, q.err)
             ELSE tradeBuyer(st, intent, base, quote, q.amount, intent.QuantityInt)

ApplyTrade(st, intent) ==
    IF intent.TradeID = 0 THEN LedgerReturn(st, ErrInvalidAmount)
    ELSE IF intent.BuyerAccountID = "" \/ intent.SellerAccountID = ""
    THEN LedgerReturn(st, ErrInvalidAmount)
    ELSE IF intent.BuyerOrderID = 0 \/ intent.SellerOrderID = 0
    THEN LedgerReturn(st, ErrInvalidAmount)
    ELSE IF intent.PriceInt <= 0 \/ intent.QuantityInt <= 0
    THEN LedgerReturn(st, ErrInvalidAmount)
    ELSE IF ParseSymbol(intent.Symbol).err # ""
    THEN LedgerReturn(st, ParseSymbol(intent.Symbol).err)
    ELSE IF SymbolSpecGet(intent.Symbol).err # ""
    THEN LedgerReturn(st, SymbolSpecGet(intent.Symbol).err)
    ELSE tradeLocked(st, intent, ParseSymbol(intent.Symbol).base,
                     ParseSymbol(intent.Symbol).quote,
                     SymbolSpecGet(intent.Symbol).QuantityScale)

-----------------------------------------------------------------------------
(* Calls on one ledger, one at a time                                      *)

LedgerAccounts == {"a1", "a2"}
LedgerOrders   == {1, 2}
LedgerTrades   == {1, 2}
LedgerPrices   == {500000, 1000000}     \* 0.5 and 1 QUOTE per 10^6 BASE units
LedgerQtys     == {1, 2}
InitialFunds   == {0, 2}

PlaceIntent(account, order, symbol, side, price, qty) ==
    [AccountID |-> account, OrderID |-> order, Symbol |-> symbol, Side |-> side,
     PriceInt |-> price, QtyInt |-> qty]

CancelIntent(account, order, symbol) ==
    [AccountID |-> account, OrderID |-> order, Symbol |-> symbol]

TradeIntent(trade, buyer, seller, buyerOrder, sellerOrder, symbol, price, qty) ==
    [TradeID |-> trade, BuyerAccountID |-> buyer, SellerAccountID |-> seller,
     BuyerOrderID |-> buyerOrder, SellerOrderID |-> sellerOrder, Symbol |-> symbol,
     PriceInt |-> price, QuantityInt |-> qty]

\* Order 1 is a1's or a2's, order 2 is a2's.
OrderOwners == {<<"a1", 1>>, <<"a2", 2>>, <<"a2", 1>>}

PlaceIntents ==
    {PlaceIntent(ao[1], ao[2], BTC, side, price, qty) :
        ao \in OrderOwners, side \in {SideBuy, SideSell},
        price \in LedgerPrices, qty \in LedgerQtys}
    \cup {PlaceIntent("a1", 1, Unsupported, SideBuy, 1000000, 1),
          PlaceIntent("a1", 1, Unparsable, SideBuy, 1000000, 1),
          PlaceIntent("a1", 1, BTC, SideSell, 1000000, 0)}

CancelIntents ==
    {CancelIntent(account, order, BTC) : account \in LedgerAccounts, order \in LedgerOrders}
    \cup {CancelIntent("", 1, BTC)}

\* a1's order 1 buys from a2's order 2.
TradeIntents ==
    {TradeIntent(trade, p[1], p[2], p[3], p[4], BTC, price, qty) :
        trade \in LedgerTrades,
        p \in {<<"a1", "a2", 1, 2>>},
        price \in LedgerPrices, qty \in LedgerQtys}
    \cup {TradeIntent(0, "a1", "a2", 1, 2, BTC, 1000000, 1),
          TradeIntent(1, "a1", "a2", 1, 2, Unparsable, 1000000, 1)}

LedgerCall(op, intent, before, r) ==
    [op |-> op, intent |-> intent, before |-> before, err |-> r.err]

NoLedgerCall == [op |-> "none", intent |-> <<>>, before |-> NewMemoryService, err |-> ""]

\* The accounts are funded through SetBalance before any order is placed.
Funded(a1quote, a1base, a2quote, a2base) ==
    SetBalance(
        SetBalance(
            SetBalance(
                SetBalance(NewMemoryService, "a1", "USDT", [Available |-> a1quote, Frozen |-> 0]),
                "a1", "BTC", [Available |-> a1base, Frozen |-> 0]),
            "a2", "USDT", [Available |-> a2quote, Frozen |-> 0]),
        "a2", "BTC", [Available |-> a2base, Frozen |-> 0])

InitLedger ==
    /\ InitBook /\ ShardIdle /\ ConcIdle /\ ProjIdle /\ SnapIdle /\ ReplyIdle /\ StopIdle
    /\ \E a1quote \in InitialFunds, a2base \in InitialFunds :
            ledger = Funded(a1quote, 0, 0, a2base)
    /\ lastLedger = NoLedgerCall
    /\ mu = "free"
    /\ workers = EmptyMap

LedgerStep(op, intent, r) ==
    /\ ledger' = r.ledger
    /\ lastLedger' = LedgerCall(op, intent, ledger, r)
    /\ UNCHANGED <<replyVars, snapVars, projVars, stopVars, bookVars, shardVars, concVars, mu, workers>>

LedgerFreeze ==
    \E intent \in PlaceIntents :
        \E r \in {CheckAndFreezeForPlace(ledger, intent)} : LedgerStep("freeze", intent, r)

LedgerRelease ==
    \E intent \in CancelIntents :
        \E r \in {ReleaseOnCancel(ledger, intent)} : LedgerStep("release", intent, r)

LedgerTrade ==
    \E intent \in TradeIntents :
        \E r \in {ApplyTrade(ledger, intent)} : LedgerStep("trade", intent, r)

NextLedger == LedgerFreeze \/ LedgerRelease \/ LedgerTrade

SpecLedger == InitLedger /\ [][NextLedger]_vars

-----------------------------------------------------------------------------
(* Properties of the ledger, checked under SpecLedger                      *)

LedgerAssets == {"BTC", "USDT"}

\* The ledger as GetBalance shows it, with the freeze records and markers.
LedgerView(st) ==
    [balances |-> [a \in LedgerAccounts |-> [x \in LedgerAssets |-> GetBalance(st, a, x)]],
     freezes |-> st.freezes,
     appliedTrades |-> st.appliedTrades]

\* C13: for every account and asset, available >= 0 and frozen >= 0 after
\* any sequence of freeze, release and apply-trade calls from non-negative
\* balances, whether the calls succeed or return an error.
C13_NonNegative ==
    \A a \in DOMAIN ledger.balances :
        \A x \in DOMAIN ledger.balances[a] :
            /\ ledger.balances[a][x].Available >= 0
            /\ ledger.balances[a][x].Frozen >= 0

\* An apply-trade call has returned an error after changing balances, and
\* an account holds both available and frozen funds.
C13_Witness ==
    /\ lastLedger.op = "trade"
    /\ lastLedger.err # ""
    /\ LedgerView(ledger).balances # LedgerView(lastLedger.before).balances
    /\ \E a \in LedgerAccounts, x \in LedgerAssets :
          GetBalance(ledger, a, x).Available > 0 /\ GetBalance(ledger, a, x).Frozen > 0

\* The last call was an ApplyTrade that settled its trade (it returned nil
\* and the trade had not been applied before).
TradeApplied ==
    /\ lastLedger.op = "trade"
    /\ lastLedger.err = ""
    /\ TradeKey(lastLedger.intent) \notin lastLedger.before.appliedTrades

QuoteAmountOf(intent) ==
    quoteAmountFromTrade(intent.PriceInt, intent.QuantityInt, QuantityScale).amount

Total(balance) == balance.Available + balance.Frozen

\* The BASE, QUOTE held by the trade's buyer and seller together.
PairTotal(st, intent, asset) ==
    Total(GetBalance(st, intent.BuyerAccountID, asset))
        + Total(GetBalance(st, intent.SellerAccountID, asset))

TradeMoved(before, after, intent) ==
    LET q      == QuoteAmountOf(intent)
        qty    == intent.QuantityInt
        buyer  == intent.BuyerAccountID
        seller == intent.SellerAccountID
        base   == ParseSymbol(intent.Symbol).base
        quote  == ParseSymbol(intent.Symbol).quote
    IN  /\ GetBalance(after, buyer, quote) =
            [Available |-> GetBalance(before, buyer, quote).Available,
             Frozen    |-> GetBalance(before, buyer, quote).Frozen - q]
        /\ GetBalance(after, seller, quote) =
            [Available |-> GetBalance(before, seller, quote).Available + q,
             Frozen    |-> GetBalance(before, seller, quote).Frozen]
        /\ GetBalance(after, seller, base) =
            [Available |-> GetBalance(before, seller, base).Available,
             Frozen    |-> GetBalance(before, seller, base).Frozen - qty]
        /\ GetBalance(after, buyer, base) =
            [Available |-> GetBalance(before, buyer, base).Available + qty,
             Frozen    |-> GetBalance(before, buyer, base).Frozen]
        /\ PairTotal(after, intent, base) = PairTotal(before, intent, base)
        /\ PairTotal(after, intent, quote) = PairTotal(before, intent, quote)

\* C14: every applied trade moves exactly quote_amount of QUOTE from the
\* buyer's frozen to the seller's available balance and exactly qty of BASE
\* from the seller's frozen to the buyer's available balance, so the totals
\* of BASE and of QUOTE over buyer and seller are the same before and after.
C14_TradeConserves ==
    TradeApplied => TradeMoved(lastLedger.before, ledger, lastLedger.intent)

\* A trade of 2 BASE units for 1 QUOTE unit has just been applied.
C14_Witness ==
    /\ TradeApplied
    /\ lastLedger.intent.QuantityInt = 2
    /\ QuoteAmountOf(lastLedger.intent) = 1

\* C15: applying a trade whose (symbol, trade_id) was applied before
\* returns without error and leaves every balance and freeze record as it
\* was.
C15_TradeIdempotent ==
    (/\ lastLedger.op = "trade"
     /\ TradeKey(lastLedger.intent) \in lastLedger.before.appliedTrades)
    => (/\ lastLedger.err = ""
        /\ ledger = lastLedger.before)

\* An applied trade has been applied again while the buyer and the seller
\* still had the frozen funds to settle it once more.
C15_Witness ==
    /\ lastLedger.op = "trade"
    /\ TradeKey(lastLedger.intent) \in lastLedger.before.appliedTrades
    /\ GetBalance(ledger, lastLedger.intent.BuyerAccountID, "USDT").Frozen
          >= QuoteAmountOf(lastLedger.intent)
    /\ GetBalance(ledger, lastLedger.intent.SellerAccountID, "BTC").Frozen
          >= lastLedger.intent.QuantityInt

\* C16: whenever ApplyTrade returns an error, no balance, no freeze record
\* and no applied-trade marker has been changed by the call.
C16_TradeAllOrNothing ==
    (lastLedger.op = "trade" /\ lastLedger.err # "")
    => LedgerView(ledger) = LedgerView(lastLedger.before)

\* The last call was a ReleaseOnCancel of an order by the account that
\* placed it, after a trade of the order was settled (every trade is one
\* between orders 1 and 2), whose freeze record still held a remaining
\* amount.
ReleaseOfRemaining ==
    /\ lastLedger.op = "release"
    /\ lastLedger.before.appliedTrades # {}
    /\ Has(lastLedger.before.freezes, lastLedger.intent.OrderID)
    /\ lastLedger.before.freezes[lastLedger.intent.OrderID].AccountID
          = lastLedger.intent.AccountID
    /\ lastLedger.before.freezes[lastLedger.intent.OrderID].FrozenAmount > 0

\* The last call was a valid ReleaseOnCancel of an order without a freeze
\* record, or of the account's order whose record holds nothing any more.
ReleaseOfNothing ==
    /\ lastLedger.op = "release"
    /\ CancelIntentValidate(lastLedger.intent) = ""
    /\ \/ ~Has(lastLedger.before.freezes, lastLedger.intent.OrderID)
       \/ /\ lastLedger.before.freezes[lastLedger.intent.OrderID].AccountID
                = lastLedger.intent.AccountID
          /\ lastLedger.before.freezes[lastLedger.intent.OrderID].FrozenAmount = 0

ReleaseMoved(before, after, order) ==
    LET freeze == before.freezes[order]
    IN  /\ GetBalance(after, freeze.AccountID, freeze.Asset) =
            [Available |-> GetBalance(before, freeze.AccountID, freeze.Asset).Available
                             + freeze.FrozenAmount,
             Frozen    |-> GetBalance(before, freeze.AccountID, freeze.Asset).Frozen
                             - freeze.FrozenAmount]
        /\ after.freezes = [before.freezes EXCEPT ![order].FrozenAmount = 0]

\* C18: releasing an order after some of its quantity was settled moves
\* exactly the order's remaining frozen amount from frozen back to
\* available and sets the record's remaining amount to 0; releasing again,
\* or releasing an order with no freeze record, changes nothing and is not
\* an error.
C18_ReleaseRemaining ==
    /\ ReleaseOfRemaining =>
          /\ lastLedger.err = ""
          /\ ReleaseMoved(lastLedger.before, ledger, lastLedger.intent.OrderID)
    /\ ReleaseOfNothing =>
          /\ lastLedger.err = ""
          /\ LedgerView(ledger) = LedgerView(lastLedger.before)

-----------------------------------------------------------------------------
(* Goroutines calling CheckAndFreezeForPlace and ReleaseOnCancel at once   *)
(*  - a worker runs one call at a time: s.mu.Lock(), the body statement by *)
(*    statement, the deferred s.mu.Unlock();                               *)
(*  - amountToFreeze and assetToFreeze are locals computed before Lock.    *)

Workers == {"w1", "w2"}

\* Orders 1 and 2 of account a1, buying or selling BTC-USDT.
ConcPlaceIntents ==
    {PlaceIntent("a1", order, BTC, side, 1000000, qty) :
        order \in LedgerOrders, side \in {SideBuy, SideSell}, qty \in LedgerQtys}

ConcCancelIntents == {CancelIntent("a1", order, BTC) : order \in LedgerOrders}

ConcFunds == Funded(3, 2, 0, 0)

WorkerIdle == [pc |-> "idle"]

InitLedgerConc ==
    /\ InitBook /\ ShardIdle /\ ConcIdle /\ ProjIdle /\ SnapIdle /\ ReplyIdle /\ StopIdle
    /\ ledger = ConcFunds
    /\ lastLedger = NoLedgerCall
    /\ mu = "free"
    /\ workers = [w \in Workers |-> WorkerIdle]

\* A Lock() that never waits.
CanLockAlways(w) == TRUE

\* s.mu.Lock() returns only while no other goroutine holds the mutex.
CanLock(w) == mu = "free"

WorkerAt(w, pc) == workers[w].pc = pc

WorkerGoes(w, rec) ==
    /\ workers' = [workers EXCEPT ![w] = rec]
    /\ UNCHANGED <<replyVars, snapVars, projVars, stopVars, bookVars, shardVars, concVars, lastLedger>>

\* Entry of CheckAndFreezeForPlace (lines 38-57) or ReleaseOnCancel (116-118).
WorkerCall(w) ==
    /\ WorkerAt(w, "idle")
    /\ \/ \E intent \in ConcPlaceIntents :
            \E f \in {freezeAmountForPlace(intent.Symbol, ParseSymbol(intent.Symbol).base,
                                           ParseSymbol(intent.Symbol).quote, intent.Side,
                                           intent.PriceInt, intent.QtyInt)} :
                /\ PlaceIntentValidate(intent) = "" /\ f.err = "" /\ f.amount > 0
                /\ WorkerGoes(w, [pc |-> "lock", op |-> "freeze", intent |-> intent,
                                  asset |-> f.asset, amount |-> f.amount])
       \/ \E intent \in ConcCancelIntents :
                /\ CancelIntentValidate(intent) = ""
                /\ WorkerGoes(w, [pc |-> "lock", op |-> "release", intent |-> intent])
    /\ UNCHANGED <<ledger, mu>>

WorkerLock(w) ==
    /\ WorkerAt(w, "lock")
    /\ CanLock(w)
    /\ mu' = w
    /\ WorkerGoes(w, [workers[w] EXCEPT !.pc = "check"])
    /\ UNCHANGED ledger

\* CheckAndFreezeForPlace lines 63-100: the checks and `Available -=`.
freezeCheck(w) ==
    LET me      == workers[w]
        intent  == me.intent
        created == getOrCreateAssetBalance(
                        getOrCreateAccountBalances(ledger, intent.AccountID),
                        intent.AccountID, me.asset)
    IN  IF Has(ledger.freezes, intent.OrderID)
        THEN /\ ledger' = ledger
             /\ WorkerGoes(w, [me EXCEPT !.pc = "unlock"])
        ELSE IF created.balances[intent.AccountID][me.asset].Available < me.amount
        THEN /\ ledger' = created
             /\ WorkerGoes(w, [me EXCEPT !.pc = "unlock"])
        ELSE /\ ledger' = [created EXCEPT
                            !.balances[intent.AccountID][me.asset].Available = @ - me.amount]
             /\ WorkerGoes(w, [me EXCEPT !.pc = "move"])

\* ReleaseOnCancel lines 124-157: the checks and `Frozen -=`.
releaseCheck(w) ==
    LET me     == workers[w]
        intent == me.intent
        freeze == ledger.freezes[intent.OrderID]
    IN  IF \/ ~Has(ledger.freezes, intent.OrderID)
           \/ freeze.AccountID # intent.AccountID
           \/ ~Has(ledger.balances, freeze.AccountID)
           \/ ~Has(ledger.balances[freeze.AccountID], freeze.Asset)
           \/ freeze.FrozenAmount <= 0
           \/ ledger.balances[freeze.AccountID][freeze.Asset].Frozen < freeze.FrozenAmount
        THEN /\ ledger' = ledger
             /\ WorkerGoes(w, [me EXCEPT !.pc = "unlock"])
        ELSE /\ ledger' = [ledger EXCEPT
                            !.balances[freeze.AccountID][freeze.Asset].Frozen =
                                @ - freeze.FrozenAmount]
             /\ WorkerGoes(w, [me EXCEPT !.pc = "move"])

WorkerCheck(w) ==
    /\ WorkerAt(w, "check")
    /\ IF workers[w].op = "freeze" THEN freezeCheck(w) ELSE releaseCheck(w)
    /\ UNCHANGED mu

\* `balance.Frozen += amountToFreeze` (101), `balance.Available +=
\* freeze.FrozenAmount` (158).
WorkerMove(w) ==
    /\ WorkerAt(w, "move")
    /\ LET me     == workers[w]
           intent == me.intent
           freeze == ledger.freezes[intent.OrderID]
       IN  ledger' =
             IF me.op = "freeze"
             THEN [ledger EXCEPT
                    !.balances[intent.AccountID][me.asset].Frozen = @ + me.amount]
             ELSE [ledger EXCEPT
                    !.balances[freeze.AccountID][freeze.Asset].Available =
                        @ + freeze.FrozenAmount]
    /\ WorkerGoes(w, [workers[w] EXCEPT !.pc = "record"])
    /\ UNCHANGED mu

\* `s.freezes[intent.OrderID] = &FreezeRecord{...}` (104-109),
\* `freeze.FrozenAmount = 0` (159).
WorkerRecord(w) ==
    /\ WorkerAt(w, "record")
    /\ LET me     == workers[w]
           intent == me.intent
       IN  ledger' =
             IF me.op = "freeze"
             THEN [ledger EXCEPT !.freezes = Put(@, intent.OrderID,
                        [AccountID            |-> intent.AccountID,
                         Asset                |-> me.asset,
                         OriginalFrozenAmount |-> me.amount,
                         FrozenAmount         |-> me.amount])]
             ELSE [ledger EXCEPT !.freezes[intent.OrderID].FrozenAmount = 0]
    /\ WorkerGoes(w, [workers[w] EXCEPT !.pc = "unlock"])
    /\ UNCHANGED mu

\* The deferred s.mu.Unlock() and the return.
WorkerUnlock(w) ==
    /\ WorkerAt(w, "unlock")
    /\ mu' = "free"
    /\ WorkerGoes(w, WorkerIdle)
    /\ UNCHANGED ledger

NextLedgerConc ==
    \/ \E w \in Workers : WorkerCall(w)
    \/ \E w \in Workers : WorkerLock(w)
    \/ \E w \in Workers : WorkerCheck(w)
    \/ \E w \in Workers : WorkerMove(w)
    \/ \E w \in Workers : WorkerRecord(w)
    \/ \E w \in Workers : WorkerUnlock(w)

SpecLedgerConc == InitLedgerConc /\ [][NextLedgerConc]_vars

-----------------------------------------------------------------------------
(* Properties of the concurrent ledger, checked under SpecLedgerConc       *)

\* C17: under any interleaving of concurrent freeze and release calls for
\* orders of one account, available + frozen of each asset of the account,
\* as a reader holding the lock sees it, equals its initial value.
C17_SumConstant ==
    mu = "free" =>
        \A asset \in LedgerAssets :
            Total(GetBalance(ledger, "a1", asset)) = Total(GetBalance(ConcFunds, "a1", asset))

\* Both orders hold frozen QUOTE, one worker has finished and the other
\* waits for the mutex to release an order.
C17_Witness ==
    /\ mu = "free"
    /\ GetBalance(ledger, "a1", "USDT").Frozen = 3
    /\ \E w \in Workers : WorkerAt(w, "lock") /\ workers[w].op = "release"

-----------------------------------------------------------------------------
(* Recovery of a symbol's book from its event log, checked under SpecShard *)

\* FileEventStore.ReadFrom(symbol, fromSeq): the events of the file's lines
\* whose sequence is at least fromSeq, in file order.
ReadFrom(log, symbol, fromSeq) ==
    IF ~Has(log, symbol) THEN <<>>
    ELSE LET all == [i \in 1..Len(log[symbol]) |-> log[symbol][i].event]
         IN  SelectSeq(all, LAMBDA e : e.SequenceValue >= fromSeq)

\* FileRecoveryService.ValidateSequence
ValidateSequence(events) ==
    IF \A i \in 2..Len(events) :
            events[i].SequenceValue = events[i - 1].SequenceValue + 1
    THEN "" ELSE "sequence gap detected"

\* performRecovery for one symbol of a fresh engine without a snapshot:
\* Recover (ReadFrom 1, ValidateSequence), then Engine.RecoverSymbol.
RecoverFromLog(log, symbol) ==
    LET F(events) ==
          IF ValidateSequence(events) # ""
          THEN [books |-> EmptyMap, err |-> ValidateSequence(events)]
          ELSE ReplayEvents(EmptyMap, symbol, events)
    IN  Let1(F, ReadFrom(log, symbol, 1))

LastLoggedSequence(log, symbol) ==
    IF ReadFrom(log, symbol, 1) = <<>> THEN 0
    ELSE ReadFrom(log, symbol, 1)[Len(ReadFrom(log, symbol, 1))].SequenceValue

\* The recovered shard holds for the symbol what the book held: resting
\* orders, queues and remaining quantities of every level, closed orders
\* (a symbol without events gets its book on the first command).
SameBook(recovered, symbol, book) ==
    LET got == IF Has(recovered, symbol) THEN recovered[symbol] ELSE NewOrderBook(symbol)
    IN  /\ got.Orders = book.Orders
        /\ got.BidLevels = book.BidLevels
        /\ got.AskLevels = book.AskLevels
        /\ got.closedOrders = book.closedOrders

\* C19: recovering a symbol from its persisted events yields a book with the
\* same resting orders, the same queue order and remaining quantities at
\* every price level and the same closed orders as the book had before the
\* restart, and the first event emitted after recovery has the last logged
\* sequence plus one.
C19_ReplayRoundTrip ==
    \A symbol \in DOMAIN books :
        \E r \in {RecoverFromLog(eventLog, symbol)} :
            /\ r.err = ""
            /\ SameBook(r.books, symbol, books[symbol])
            /\ nextEventSequence(IF Has(r.books, symbol) THEN r.books[symbol]
                                  ELSE NewOrderBook(symbol))
                  = LastLoggedSequence(eventLog, symbol) + 1

\* FileRecoveryService.Recover for a symbol that has no snapshot (Load
\* returns nil, fromSeq = 1): the events it returns and its error
Recover(log, symbol) ==
    LET F(events) ==
          IF ValidateSequence(events) # ""
          THEN [events |-> <<>>, err |-> "sequence validation failed"]
          ELSE [events |-> events, err |-> ""]
    IN  Let1(F, ReadFrom(log, symbol, 1))

\* The events begin at expected and each one follows its predecessor by one.
BeginsAt(events, expected) ==
    /\ events[1].SequenceValue = expected
    /\ \A i \in 2..Len(events) :
            events[i].SequenceValue = events[i - 1].SequenceValue + 1

\* C21: recovery of a symbol without a snapshot hands events to
\* Engine.RecoverSymbol (performRecovery passes on what Recover returned
\* without an error) only if they begin at sequence 1 and every following
\* event's sequence is its predecessor's plus one.
C21_RecoveryChecksStart ==
    \A symbol \in DOMAIN eventLog :
        \E r \in {Recover(eventLog, symbol)} :
            (r.err = "" /\ r.events # <<>>) => BeginsAt(r.events, 1)

-----------------------------------------------------------------------------
(* api: the request handlers over one engine and one ledger, and the       *)
(* ledger's recovery from the event log                                    *)
(*  - a request is handled to its end before the next one starts;          *)
(*  - the event store does not fail here (NoFailure), and no idempotency   *)
(*    record expires.                                                      *)

LiveKeys == {"k1"}

\* generateOrderIDFromIdempotencyKey: the name-based UUID of
\* account|symbol|key, taken to be free of collisions.
generateOrderIDFromIdempotencyKey(account, symbol, key) ==
    IF account = "a1" THEN 1 ELSE IF key = "k1" THEN 2 ELSE 3

\* Trade.MakerAccountID, Trade.TakerAccountID: the account that placed the
\* order (order ids are scoped by account).
OrderAccount(order) == IF order = 1 THEN "a1" ELSE "a2"

\* fmt.Sprintf("cancel_%s_%s", accountID, orderID)
CancelKey(account, order) == "cancel_" \o account \o "_o" \o ToString(order)

\* a1 buys and a2 sells BTC-USDT.
LivePlaceRequests ==
    [AccountID : {"a1"}, Symbol : {BTC}, Side : {SideBuy},
     Price : LedgerPrices, Quantity : LedgerQtys, IdempotencyKey : LiveKeys]
    \cup
    [AccountID : {"a2"}, Symbol : {BTC}, Side : {SideSell},
     Price : LedgerPrices, Quantity : LedgerQtys, IdempotencyKey : LiveKeys]

LiveCancelRequests ==
    [AccountID : LedgerAccounts, Symbol : {BTC}, OrderID : LedgerOrders]

LiveFunds == Funded(2, 0, 0, 2)

ShardState == [books |-> books, eventLog |-> eventLog, records |-> records]

\* Handler.rollbackFreeze: the error of ReleaseOnCancel is dropped.
rollbackFreeze(st, order, account, symbol) ==
    ReleaseOnCancel(st, CancelIntent(account, order, symbol)).ledger

TradeIntentOf(trade, makerAccount, takerAccount) ==
    IF trade.MakerSide = SideBuy
    THEN TradeIntent(trade.TradeID, makerAccount, takerAccount,
                     trade.MakerOrderID, trade.TakerOrderID,
                     trade.Symbol, trade.Price, trade.Quantity)
    ELSE TradeIntent(trade.TradeID, takerAccount, makerAccount,
                     trade.TakerOrderID, trade.MakerOrderID,
                     trade.Symbol, trade.Price, trade.Quantity)

\* Handler.applyTrades from trade i on: stops at the first error.
RECURSIVE applyTrades(_, _, _)
applyTrades(st, trades, i) ==
    IF i > Len(trades) THEN LedgerReturn(st, "")
    ELSE LET F(r) == IF r.err # "" THEN r ELSE applyTrades(r.ledger, trades, i + 1)
         IN  Let1(F, ApplyTrade(st, TradeIntentOf(trades[i],
                                    OrderAccount(trades[i].MakerOrderID),
                                    OrderAccount(trades[i].TakerOrderID))))

\* MapErrorToHTTP: the error code of the answer to an error of the ledger
MapErrorToHTTP(err) ==
    IF err = ErrInsufficientBalance THEN "INSUFFICIENT_BALANCE"
    ELSE IF err \in {ErrInvalidAmount, ErrInvalidSymbol, ErrAccountNotFound}
         THEN "INVALID_ARGUMENT"
         ELSE "INTERNAL_ERROR"

\* writeErrorResponse / writeMappedErrorResponse: the answer carries the
\* error code and no order.
ErrorReply(code) == [Code |-> code, OrderID |-> 0, Status |-> ""]

\* Handler.buildPlaceOrderResponse: the status is the new status of the
\* result's last status change, "NEW" where the result has none.
buildPlaceOrderResponse(orderID, result) ==
    [Code    |-> "",
     OrderID |-> orderID,
     Status  |-> IF Len(result.OrderStatusChanges) > 0
                 THEN result.OrderStatusChanges[Len(result.OrderStatusChanges)].NewStatus
                 ELSE "NEW"]

\* Handler.PlaceOrder from the freeze on, for a well-formed request whose
\* appends meet the fate: [ledger, shard, reply], shard being what
\* processCommand returns.
PlaceOrder(st, shard, t, req, fate) ==
    LET orderID == generateOrderIDFromIdempotencyKey(req.AccountID, req.Symbol,
                                                     req.IdempotencyKey)
        frozen  == CheckAndFreezeForPlace(st,
                        PlaceIntent(req.AccountID, orderID, req.Symbol, req.Side,
                                    req.Price, req.Quantity))
        G(x, settled) ==
                [ledger |-> settled.ledger,
                 shard  |-> x,
                 reply  |-> IF settled.err # "" THEN ErrorReply("INTERNAL_ERROR")
                            ELSE buildPlaceOrderResponse(orderID, x.resp.Result)]
        F(x) == IF x.resp.ErrorCode # ErrorCodeNone
                THEN [ledger |-> rollbackFreeze(frozen.ledger, orderID,
                                                req.AccountID, req.Symbol),
                      shard  |-> x,
                      reply  |-> ErrorReply(x.resp.ErrorCode)]
                ELSE Let2(G, x, applyTrades(frozen.ledger, x.resp.Result.Trades, 1))
    IN  IF frozen.err # ""
        THEN [ledger |-> frozen.ledger,
              shard  |-> [books |-> shard.books, eventLog |-> shard.eventLog,
                          records |-> shard.records],
              reply  |-> ErrorReply(MapErrorToHTTP(frozen.err))]
        ELSE Let1(F, processCommand(shard, t,
                        Envelope(CommandTypePlace, req.IdempotencyKey,
                                 PlaceReq(orderID, req.AccountID, req.Symbol,
                                          req.Side, req.Price, req.Quantity)),
                        fate))

\* Handler.PlaceOrder with an event store that does not fail
HandlePlace(st, shard, t, req) == PlaceOrder(st, shard, t, req, NoFailure)

\* Handler.CancelOrder for a well-formed request whose appends meet the
\* fate.
CancelOrder(st, shard, t, req, fate) ==
    LET F(x) == IF x.resp.ErrorCode # ErrorCodeNone
                THEN [ledger |-> st, shard |-> x]
                ELSE [ledger |-> ReleaseOnCancel(st,
                                    CancelIntent(req.AccountID, req.OrderID,
                                                 req.Symbol)).ledger,
                      shard  |-> x]
    IN  Let1(F, processCommand(shard, t,
                    Envelope(CommandTypeCancel, CancelKey(req.AccountID, req.OrderID),
                             CancelReq(req.OrderID, req.AccountID, req.Symbol)),
                    fate))

\* Handler.CancelOrder with an event store that does not fail
HandleCancel(st, shard, t, req) == CancelOrder(st, shard, t, req, NoFailure)

\* replayAccountEvents from event i on; orderLookup is order id ->
\* [accountID, side].
RECURSIVE replayAccountLoop(_, _, _, _, _)
replayAccountLoop(st, symbol, events, i, orderLookup) ==
    IF i > Len(events) THEN LedgerReturn(st, "")
    ELSE LET e == events[i]
             G(r) == IF r.err # "" THEN LedgerReturn(r.ledger, "account recovery failed")
                     ELSE replayAccountLoop(r.ledger, symbol, events, i + 1,
                            IF e.Type = "OrderAccepted"
                            THEN Put(orderLookup, e.OrderID,
                                     [accountID |-> e.AccountID, side |-> e.Side])
                            ELSE orderLookup)
         IN  IF e.Type = "OrderAccepted"
             THEN Let1(G, CheckAndFreezeForPlace(st,
                            PlaceIntent(e.AccountID, e.OrderID, symbol, e.Side,
                                        e.Price, e.Quantity)))
             ELSE IF e.Type = "OrderMatched"
             THEN IF ~Has(orderLookup, e.MakerOrderID) \/ ~Has(orderLookup, e.TakerOrderID)
                  THEN LedgerReturn(st, "missing order metadata")
                  ELSE Let1(G, ApplyTrade(st,
                            IF orderLookup[e.MakerOrderID].side = SideBuy
                            THEN TradeIntent(e.TradeID,
                                    orderLookup[e.MakerOrderID].accountID,
                                    orderLookup[e.TakerOrderID].accountID,
                                    e.MakerOrderID, e.TakerOrderID,
                                    symbol, e.Price, e.Quantity)
                            ELSE TradeIntent(e.TradeID,
                                    orderLookup[e.TakerOrderID].accountID,
                                    orderLookup[e.MakerOrderID].accountID,
                                    e.TakerOrderID, e.MakerOrderID,
                                    symbol, e.Price, e.Quantity)))
             ELSE IF e.Type = "OrderCanceled"
             THEN Let1(G, ReleaseOnCancel(st, CancelIntent(e.AccountID, e.OrderID, symbol)))
             ELSE LedgerReturn(st, "unknown event type")

replayAccountEvents(st, symbol, events) ==
    replayAccountLoop(st, symbol, events, 1, EmptyMap)

InitLive ==
    /\ books = EmptyMap
    /\ emitted = EmptyMap
    /\ lastCall = NoCall
    /\ records = EmptyMap
    /\ eventLog = EmptyMap
    /\ now = 0
    /\ lastProc = NoProc
    /\ owner = EmptyMap
    /\ issued = EmptyMap
    /\ ConcIdle /\ ProjIdle /\ SnapIdle /\ ReplyIdle /\ StopIdle
    /\ ledger = LiveFunds
    /\ lastLedger = NoLedgerCall
    /\ mu = "free"
    /\ workers = EmptyMap

LiveStep(r) ==
    /\ ledger' = r.ledger
    /\ books' = r.shard.books
    /\ eventLog' = r.shard.eventLog
    /\ records' = r.shard.records
    /\ UNCHANGED <<replyVars, snapVars, projVars, stopVars, emitted, lastCall, now, lastProc, owner, issued, concVars,
                   lastLedger, mu, workers>>

LivePlace ==
    \E req \in LivePlaceRequests :
        \E r \in {HandlePlace(ledger, ShardState, now, req)} : LiveStep(r)

LiveCancel ==
    \E req \in LiveCancelRequests :
        \E r \in {HandleCancel(ledger, ShardState, now, req)} : LiveStep(r)

NextLive == LivePlace \/ LiveCancel

SpecLive == InitLive /\ [][NextLive]_vars

-----------------------------------------------------------------------------
(* Properties of the handlers, checked under SpecLive                      *)

\* What the claim compares: every balance and every order's remaining
\* frozen amount (0 for an order without a freeze record).
RemainingView(st) ==
    [balances |-> [a \in LedgerAccounts |-> [x \in LedgerAssets |-> GetBalance(st, a, x)]],
     remaining |-> [o \in LedgerOrders |->
                        IF Has(st.freezes, o) THEN st.freezes[o].FrozenAmount ELSE 0]]

\* C20: replaying the symbol's full event log into a ledger seeded with the
\* same initial balances yields, for every account and asset, the same
\* available and frozen amounts and the same per-order remaining frozen
\* amounts that the live request handling has produced.
C20_LedgerReplay ==
    \E r \in {replayAccountEvents(LiveFunds, BTC, ReadFrom(eventLog, BTC, 1))} :
        /\ r.err = ""
        /\ RemainingView(r.ledger) = RemainingView(ledger)

-----------------------------------------------------------------------------
(* projection: the order and trade repositories and the projector          *)
(*  - proj holds both repositories: the order views by id and the three    *)
(*    order indexes, the trade views by id and the two trade indexes, and  *)
(*    each repository's last sequence per symbol; an index entry is the id *)
(*    of the view it points to;                                            *)
(*  - the times of a view (CreatedAt, UpdatedAt, OccurredAt) are left out. *)

\* NewMemoryOrderRepository and NewMemoryTradeRepository
NewRepositories ==
    [orders          |-> EmptyMap,
     byClientOrderID |-> EmptyMap,
     byAccount       |-> EmptyMap,
     bySymbol        |-> EmptyMap,
     orderLast       |-> EmptyMap,
     trades          |-> EmptyMap,
     tradesBySymbol  |-> EmptyMap,
     byOrder         |-> EmptyMap,
     tradeLast       |-> EmptyMap]

\* GetLastSequence of either repository: 0 for a symbol it has not seen
GetLastSequence(last, symbol) == IF Has(last, symbol) THEN last[symbol] ELSE 0

\* SetLastSequence of either repository: [last, err]
SetLastSequence(last, symbol, sequence) ==
    IF sequence < GetLastSequence(last, symbol)
    THEN [last |-> last, err |-> "sequence regression"]
    ELSE [last |-> Put(last, symbol, sequence), err |-> ""]

\* The list m[k] of a Go map of slices (nil when the key is missing)
ListAt(m, k) == IF Has(m, k) THEN m[k] ELSE <<>>

\* m[k] = list, and delete(m, k) when the list has become empty
PutList(m, k, list) == IF list = <<>> THEN Del(m, k) ELSE Put(m, k, list)

\* MemoryOrderRepository.removeFromIndexes
removeFromIndexes(p, order) ==
    [p EXCEPT
       !.byClientOrderID =
           IF Has(@, order.AccountID)
           THEN PutList(@, order.AccountID, Del(@[order.AccountID], order.ClientOrderID))
           ELSE @,
       !.byAccount =
           IF Has(@, order.AccountID)
           THEN PutList(@, order.AccountID, RemoveFromSeq(@[order.AccountID], order.OrderID))
           ELSE @,
       !.bySymbol =
           IF Has(@, order.Symbol)
           THEN PutList(@, order.Symbol, RemoveFromSeq(@[order.Symbol], order.OrderID))
           ELSE @]

\* MemoryOrderRepository.addToIndexes
addToIndexes(p, order) ==
    [p EXCEPT
       !.byClientOrderID =
           Put(@, order.AccountID,
               Put(ListAt(@, order.AccountID), order.ClientOrderID, order.OrderID)),
       !.byAccount = Put(@, order.AccountID, Append(ListAt(@, order.AccountID), order.OrderID)),
       !.bySymbol  = Put(@, order.Symbol, Append(ListAt(@, order.Symbol), order.OrderID))]

\* MemoryOrderRepository.Save
OrderSave(p, order) ==
    LET F(cleared) == addToIndexes([cleared EXCEPT !.orders = Put(@, order.OrderID, order)],
                                   order)
    IN  Let1(F, IF Has(p.orders, order.OrderID)
                THEN removeFromIndexes(p, p.orders[order.OrderID])
                ELSE p)

\* sameTrade
sameTrade(a, b) ==
    /\ a.TradeID = b.TradeID
    /\ a.Symbol = b.Symbol
    /\ a.MakerOrderID = b.MakerOrderID
    /\ a.TakerOrderID = b.TakerOrderID
    /\ a.MakerAccountID = b.MakerAccountID
    /\ a.TakerAccountID = b.TakerAccountID
    /\ a.Price = b.Price
    /\ a.Quantity = b.Quantity
    /\ a.Sequence = b.Sequence

\* The symbol's trade list after the append and the sort by Sequence
\* (the trades of one symbol have different sequences).
SortedInsert(list, trades, trade) ==
    SelectSeq(list, LAMBDA id : trades[id].Sequence <= trade.Sequence)
        \o <<trade.TradeID>>
        \o SelectSeq(list, LAMBDA id : trades[id].Sequence > trade.Sequence)

\* MemoryTradeRepository.Save: [proj, err]
TradeSave(p, trade) ==
    IF Has(p.trades, trade.TradeID)
    THEN [proj |-> p,
          err  |-> IF sameTrade(p.trades[trade.TradeID], trade) THEN "" ELSE "trade conflict"]
    ELSE [proj |->
            [p EXCEPT
               !.trades = Put(@, trade.TradeID, trade),
               !.tradesBySymbol =
                   Put(@, trade.Symbol, SortedInsert(ListAt(@, trade.Symbol), p.trades, trade)),
               !.byOrder =
                   LET withMaker == Put(@, trade.MakerOrderID,
                                        Append(ListAt(@, trade.MakerOrderID), trade.TradeID))
                   IN  Put(withMaker, trade.TakerOrderID,
                           Append(ListAt(withMaker, trade.TakerOrderID), trade.TradeID))],
          err |-> ""]

\* A validateSequence that lets a gap pass
validateSequenceGap(p, symbol, sequence) ==
    LET orderLastSeq == GetLastSequence(p.orderLast, symbol)
        tradeLastSeq == GetLastSequence(p.tradeLast, symbol)
    IN  IF orderLastSeq # tradeLastSeq THEN "projection sequence mismatch"
        ELSE IF orderLastSeq = 0 /\ sequence # 1
             THEN "first event must have sequence 1"
        ELSE IF orderLastSeq > 0 /\ sequence < orderLastSeq + 1
             THEN "sequence regression"
        ELSE ""

\* Projector.validateSequence: the error, "" for none
validateSequence(p, symbol, sequence) ==
    LET orderLastSeq == GetLastSequence(p.orderLast, symbol)
        tradeLastSeq == GetLastSequence(p.tradeLast, symbol)
    IN  IF orderLastSeq # tradeLastSeq THEN "projection sequence mismatch"
        ELSE IF orderLastSeq = 0 /\ sequence # 1
             THEN "first event must have sequence 1"
        ELSE IF orderLastSeq > 0 /\ sequence # orderLastSeq + 1
             THEN IF sequence < orderLastSeq + 1 THEN "sequence regression"
                  ELSE "sequence gap detected"
        ELSE ""

\* Projector.projectOrderAccepted: [proj, err]
projectOrderAccepted(p, event) ==
    IF Has(p.orders, event.OrderID)
       /\ p.orders[event.OrderID].LastSequence >= event.SequenceValue
    THEN [proj |-> p, err |-> ""]
    ELSE [proj |-> OrderSave(p, [OrderID       |-> event.OrderID,
                                 ClientOrderID |-> event.ClientOrderID,
                                 AccountID     |-> event.AccountID,
                                 Symbol        |-> event.SymbolValue,
                                 Side          |-> event.Side,
                                 Price         |-> event.Price,
                                 Quantity      |-> event.Quantity,
                                 RemainingQty  |-> event.Quantity,
                                 FilledQty     |-> 0,
                                 Status        |-> OrderStatusNew,
                                 LastSequence  |-> event.SequenceValue]),
          err  |-> ""]

\* An applyMatchToOrder without the guard against a second application
applyMatchAgain(order, matchQty, seq) ==
    [order EXCEPT
       !.FilledQty = @ + matchQty,
       !.RemainingQty = @ - matchQty,
       !.LastSequence = seq,
       !.Status = IF order.RemainingQty - matchQty = 0
                  THEN OrderStatusFilled ELSE OrderStatusPartiallyFilled]

\* applyMatchToOrder
applyMatchToOrder(order, matchQty, seq) ==
    IF order.LastSequence >= seq THEN order
    ELSE [order EXCEPT
            !.FilledQty = @ + matchQty,
            !.RemainingQty = @ - matchQty,
            !.LastSequence = seq,
            !.Status = IF order.RemainingQty - matchQty = 0
                       THEN OrderStatusFilled ELSE OrderStatusPartiallyFilled]

\* Projector.projectOrderMatched: [proj, err]
projectOrderMatched(p, event) ==
    IF ~Has(p.orders, event.MakerOrderID)
    THEN [proj |-> p, err |-> "failed to get maker order"]
    ELSE IF ~Has(p.orders, event.TakerOrderID)
    THEN [proj |-> p, err |-> "failed to get taker order"]
    ELSE LET F(makerOrder, takerOrder) ==
               IF makerOrder.RemainingQty < 0 \/ takerOrder.RemainingQty < 0
               THEN [proj |-> p, err |-> "invalid match result: negative remaining quantity"]
               ELSE IF makerOrder.FilledQty > makerOrder.Quantity
                       \/ takerOrder.FilledQty > takerOrder.Quantity
               THEN [proj |-> p,
                     err  |-> "invalid match result: filled quantity exceeds order quantity"]
               ELSE TradeSave(OrderSave(OrderSave(p, makerOrder), takerOrder),
                              [TradeID        |-> event.TradeID,
                               Symbol         |-> event.SymbolValue,
                               MakerOrderID   |-> event.MakerOrderID,
                               TakerOrderID   |-> event.TakerOrderID,
                               MakerAccountID |-> makerOrder.AccountID,
                               TakerAccountID |-> takerOrder.AccountID,
                               Price          |-> event.Price,
                               Quantity       |-> event.Quantity,
                               Sequence       |-> event.SequenceValue])
         IN  Let2(F, applyMatchToOrder(p.orders[event.MakerOrderID], event.Quantity,
                                       event.SequenceValue),
                     applyMatchToOrder(p.orders[event.TakerOrderID], event.Quantity,
                                       event.SequenceValue))

\* Projector.projectOrderCanceled: [proj, err]
projectOrderCanceled(p, event) ==
    IF ~Has(p.orders, event.OrderID) THEN [proj |-> p, err |-> "failed to get order"]
    ELSE IF p.orders[event.OrderID].LastSequence >= event.SequenceValue
    THEN [proj |-> p, err |-> ""]
    ELSE [proj |-> OrderSave(p, [p.orders[event.OrderID] EXCEPT
                                    !.Status = OrderStatusCanceled,
                                    !.LastSequence = event.SequenceValue]),
          err  |-> ""]

\* The switch of Project over the event's type
projectByType(p, event) ==
    IF event.Type = "OrderAccepted" THEN projectOrderAccepted(p, event)
    ELSE IF event.Type = "OrderMatched" THEN projectOrderMatched(p, event)
    ELSE IF event.Type = "OrderCanceled" THEN projectOrderCanceled(p, event)
    ELSE [proj |-> p, err |-> "unknown event type"]

\* The end of Project: the trade cursor, then the order cursor.  fate
\* says whether the trade repository's SetLastSequence fails on its own
\* account (a repository other than the in-memory one may).
advanceCursors(p, symbol, sequence, fate) ==
    LET F(t) ==
          IF t.err # "" THEN [proj |-> p, err |-> "failed to advance trade sequence"]
          ELSE LET G(o) ==
                     IF o.err # ""
                     THEN [proj |-> [p EXCEPT !.tradeLast = t.last],
                           err  |-> "failed to advance order sequence"]
                     ELSE [proj |-> [p EXCEPT !.tradeLast = t.last, !.orderLast = o.last],
                           err  |-> ""]
               IN  Let1(G, SetLastSequence(p.orderLast, symbol, sequence))
    IN  Let1(F, IF fate = "tradeCursor"
                THEN [last |-> p.tradeLast, err |-> "simulated persist failure"]
                ELSE SetLastSequence(p.tradeLast, symbol, sequence))

\* Projector.Project: [proj, err]
Project(p, event, fate) ==
    IF validateSequence(p, event.SymbolValue, event.SequenceValue) # ""
    THEN [proj |-> p, err |-> validateSequence(p, event.SymbolValue, event.SequenceValue)]
    ELSE LET F(r) == IF r.err # "" THEN r
                     ELSE advanceCursors(r.proj, event.SymbolValue, event.SequenceValue, fate)
         IN  Let1(F, projectByType(p, event))

-----------------------------------------------------------------------------
(* The projector reading the event logs of two symbols                     *)
(*  - each symbol's book takes a sell and a buy at one price, and BTC's    *)
(*    book cancels what rests;                                             *)
(*    every event a book returns is appended to the symbol's log;          *)
(*  - the projector is handed any logged event, in any order.              *)

ProjSymbols == {BTC, ETH}

ProjOrders(symbol) == IF symbol = BTC THEN {1, 2} ELSE {3, 4}

\* BTC: sell 1 of quantity 2, then buy 2 of quantity 1; ETH: sell 3 and
\* buy 4 of quantity 1.
ProjPlaceRequests(symbol) ==
    LET free == ProjOrders(symbol) \ KnownIDs(books[symbol])
    IN  {PlaceReq(n, AccountOf(n), symbol, IF n % 2 = 1 THEN SideSell ELSE SideBuy, 1,
                  IF n = 1 THEN 2 ELSE 1) :
            n \in (IF free = {} THEN {} ELSE {SetMin(free)})}

ProjFates == {"ok", "tradeCursor"}

NoProject ==
    [event |-> <<>>, fate |-> "ok", before |-> NewRepositories, err |-> "",
     consumedBefore |-> <<>>, consumed |-> <<>>, faulted |-> FALSE]

InitProj ==
    /\ books = [s \in ProjSymbols |-> NewOrderBook(s)]
    /\ emitted = [s \in ProjSymbols |-> <<>>]
    /\ lastCall = NoCall
    /\ ShardIdle /\ ConcIdle /\ LedgerIdle /\ StopIdle /\ SnapIdle /\ ReplyIdle
    /\ proj = NewRepositories
    /\ lastProject = NoProject

\* A call on a symbol's book whose events all reach the symbol's log
ProjLogged(symbol, r) ==
    /\ r.err = ""
    /\ books' = [books EXCEPT ![symbol] = r.ob]
    /\ eventLog' = persistEvents(eventLog, symbol, r.result.Events, 1, NoFailure).log
    /\ UNCHANGED <<replyVars, snapVars, projVars, stopVars, ledgerVars, emitted, lastCall, records, now,
                   lastProc, owner, issued, concVars>>

ProjPlace ==
    \E symbol \in ProjSymbols :
        \E req \in ProjPlaceRequests(symbol) :
            \E r \in {PlaceLimit(books[symbol], req)} : ProjLogged(symbol, r)

ProjCancel ==
    \E symbol \in {BTC} :
        \E n \in DOMAIN books[symbol].Orders :
            \E r \in {Cancel(books[symbol], CancelReq(n, AccountOf(n), symbol))} :
                ProjLogged(symbol, r)

\* Projector.Project on a logged event
ProjectEvent ==
    \E symbol \in DOMAIN eventLog :
        \E i \in 1..Len(eventLog[symbol]), fate \in ProjFates :
            \E r \in {Project(proj, eventLog[symbol][i].event, fate)} :
                /\ proj' = r.proj
                /\ lastProject' =
                     [event          |-> eventLog[symbol][i].event,
                      fate           |-> fate,
                      before         |-> proj,
                      err            |-> r.err,
                      consumedBefore |-> lastProject.consumed,
                      consumed       |-> IF r.err = ""
                                         THEN Append(lastProject.consumed,
                                                     eventLog[symbol][i].event)
                                         ELSE lastProject.consumed,
                      faulted        |-> lastProject.faulted
                                           \/ r.err = "failed to advance trade sequence"]
                /\ UNCHANGED <<replyVars, snapVars, stopVars, ledgerVars, bookVars, shardVars, concVars>>

NextProj == ProjPlace \/ ProjCancel \/ ProjectEvent

SpecProj == InitProj /\ [][NextProj]_vars

-----------------------------------------------------------------------------
(* Properties of the projector, checked under SpecProj                     *)

Projected == lastProject.event # <<>>

\* The sequence the symbol of the last event was expected to bring
ExpectedSequence ==
    GetLastSequence(lastProject.before.orderLast, lastProject.event.SymbolValue) + 1

\* C22: an event whose sequence is not the symbol's last projected sequence
\* plus one (1 for the symbol's first event) is rejected with an error, and
\* the order views, the trade views and both cursors stay as they were.
C22_OnlyNextSequence ==
    (Projected /\ lastProject.event.SequenceValue # ExpectedSequence)
        => (lastProject.err # "" /\ proj = lastProject.before)

\* An event that skips one sequence was handed to a projector that holds
\* views of the symbol, and was rejected.
C22_Witness ==
    /\ Projected
    /\ lastProject.event.SequenceValue = ExpectedSequence + 1
    /\ ExpectedSequence > 1
    /\ lastProject.before.trades # EmptyMap
    /\ lastProject.err = "sequence gap detected"

\* The last Project call applied its event and then failed to advance the
\* trade cursor.
TradeCursorFailed ==
    /\ Projected
    /\ lastProject.fate = "tradeCursor"
    /\ lastProject.err = "failed to advance trade sequence"

\* C23: when the advance of the trade cursor has failed, the order cursor
\* is where it was, and projecting the same event again succeeds and leaves
\* the order views, the trade views and the cursors as one successful
\* projection of the event would have left them.
C23_RetryAfterTradeCursor ==
    TradeCursorFailed =>
        /\ proj.orderLast = lastProject.before.orderLast
        /\ \E again \in {Project(proj, lastProject.event, "ok")},
              once \in {Project(lastProject.before, lastProject.event, "ok")} :
                /\ again.err = ""
                /\ again.proj = once.proj

\* The advance failed for a match between two orders of BTC.
C23_Witness ==
    /\ TradeCursorFailed
    /\ lastProject.event.Type = "OrderMatched"
    /\ proj.orders[lastProject.event.MakerOrderID].FilledQty = 1
    /\ lastProject.before.orders[lastProject.event.MakerOrderID].FilledQty = 0

\* The projector that has been handed events[i..] one after the other, with
\* no failure of its repositories
RECURSIVE ProjectAll(_, _, _)
ProjectAll(p, events, i) ==
    IF i > Len(events) THEN p
    ELSE LET F(r) == ProjectAll(r.proj, events, i + 1)
         IN  Let1(F, Project(p, events[i], "ok"))

\* C24: while no repository call has failed on its own account, the order
\* views, the trade views and the cursors the projector holds after a
\* successful Project are those that the events it has consumed so far, and
\* nothing else, produce from empty repositories; and a Project call for an
\* event that is already among the consumed ones changes none of them.
C24_FunctionOfConsumed ==
    /\ (Projected /\ ~lastProject.faulted /\ lastProject.err = "")
            => proj = ProjectAll(NewRepositories, lastProject.consumed, 1)
    /\ (Projected /\ InSeq(lastProject.consumedBefore, lastProject.event))
            => proj = lastProject.before

-----------------------------------------------------------------------------
(* engine: Engine.Submit, Engine.Close and Shard.Stop around one shard      *)
(*  - submitters call Engine.Submit, closers call Engine.Close; the        *)
(*    shard's event loop is the executor of the threads above;             *)
(*  - submitMu is a sync.RWMutex: a Lock() that has begun keeps new        *)
(*    readers out while it waits for the readers inside to leave;          *)
(*  - the ticker case of the event loop is left out.                       *)

Closers == {"c1", "c2"}

\* The one command submitters send while the engine is being closed
StopEnvelopes ==
    {Envelope(CommandTypePlace, "k1", PlaceReq(1, "a1", BTC, SideSell, 1, 1))}

InitStop ==
    /\ books = EmptyMap
    /\ emitted = EmptyMap
    /\ lastCall = NoCall
    /\ records = EmptyMap
    /\ eventLog = EmptyMap
    /\ now = 0
    /\ lastProc = NoProc
    /\ owner = EmptyMap
    /\ issued = EmptyMap
    /\ LedgerIdle /\ ProjIdle /\ SnapIdle /\ ReplyIdle
    /\ cmdQueue = <<>>
    /\ threads = [t \in Submitters \cup {Executor} \cup Closers |->
                    IF t \in Submitters
                    THEN [pc |-> "idle", sent |-> 0, resp |-> NilResult, late |-> FALSE]
                    ELSE IF t = Executor THEN [pc |-> "select"]
                    ELSE [pc |-> "idle", blocked |-> {}]]
    /\ enqueued = <<>>
    /\ executed = <<>>
    /\ delivered = <<>>
    /\ inBook = {}
    /\ race = "none"
    /\ submitMu = [readers |-> {}, writer |-> "", waiting |-> {}]
    /\ stopped = FALSE
    /\ queueClosed = FALSE
    /\ closed = FALSE
    /\ closeOnce = "new"

\* What a refused Submit returns
Refused(err) == ExecResult(NilResult, ErrorCodeInvalidArgument, err)

\* Engine.Submit is called: e.closed.Load() and the routing, up to the call
\* of Shard.Submit.  late records that the call began after a Close had
\* returned.
EngineSubmit(t) ==
    /\ threads[t].pc = "idle"
    /\ threads[t].sent < MaxSubmits
    /\ threads' = [threads EXCEPT ![t] =
                     IF closed
                     THEN [pc |-> "idle", sent |-> @.sent + 1,
                           resp |-> Refused("engine is closed"),
                           late |-> \E c \in Closers : threads[c].pc = "returned"]
                     ELSE [pc |-> "rlock", sent |-> @.sent + 1, resp |-> NilResult,
                           late |-> \E c \in Closers : threads[c].pc = "returned"]]
    /\ UNCHANGED <<replyVars, snapVars, projVars, stopVars, ledgerVars, bookVars, shardVars, cmdQueue,
                   enqueued, executed, delivered, inBook, race>>

\* s.submitMu.RLock() returns while no writer holds the mutex or waits
\* for it.
CanRLock == submitMu.writer = "" /\ submitMu.waiting = {}

\* A Submit that tests s.stopped without holding the read lock over the
\* send
ShardSubmitCheckUnlocked(t) ==
    /\ threads[t].pc = "rlock"
    /\ CanRLock
    /\ IF stopped
       THEN threads' = [threads EXCEPT
                          ![t].pc = "idle",
                          ![t].resp = Refused("shard is stopped"),
                          ![t].late = \E c \in Closers : threads[c].pc = "returned"]
       ELSE threads' = [threads EXCEPT
                          ![t].pc = "send",
                          ![t].late = \E c \in Closers : threads[c].pc = "returned"]
    /\ UNCHANGED <<replyVars, snapVars, projVars, ledgerVars, bookVars, shardVars, cmdQueue,
                   enqueued, executed, delivered, inBook, race, stopVars>>

\* Shard.Submit is called: RLock and the test of s.stopped.  late records
\* that this call began after a Stop had returned.
ShardSubmitCheck(t) ==
    /\ threads[t].pc = "rlock"
    /\ CanRLock
    /\ IF stopped
       THEN /\ threads' = [threads EXCEPT
                              ![t].pc = "idle",
                              ![t].resp = Refused("shard is stopped"),
                              ![t].late = \E c \in Closers : threads[c].pc = "returned"]
            /\ UNCHANGED submitMu
       ELSE /\ threads' = [threads EXCEPT
                              ![t].pc = "send",
                              ![t].late = \E c \in Closers : threads[c].pc = "returned"]
            /\ submitMu' = [submitMu EXCEPT !.readers = @ \cup {t}]
    /\ UNCHANGED <<replyVars, snapVars, projVars, ledgerVars, bookVars, shardVars, cmdQueue, enqueued,
                   executed, delivered, inBook, race, stopped, queueClosed, closed,
                   closeOnce>>

\* Shard.Submit: the send on cmdQueue, which blocks while the queue is
\* full, and the RUnlock after it
ShardSubmitSend(t) ==
    /\ threads[t].pc = "send"
    /\ Len(cmdQueue) < QueueSize
    /\ \E envelope \in StopEnvelopes :
          cmdQueue' = Append(cmdQueue, [envelope |-> envelope, respChan |-> t])
    /\ enqueued' = Append(enqueued, <<t, threads[t].sent>>)
    /\ threads' = [threads EXCEPT ![t].pc = "waiting"]
    /\ submitMu' = [submitMu EXCEPT !.readers = @ \ {t}]
    /\ UNCHANGED <<replyVars, snapVars, projVars, ledgerVars, bookVars, shardVars, executed, delivered,
                   inBook, race, stopped, queueClosed, closed, closeOnce>>

\* An event loop that returns as soon as the queue is closed
QueueDrainedAlways(queue) == TRUE

\* A receive from the closed cmdQueue reports !ok only once the queue is
\* empty.
QueueDrained(queue) == queue = <<>>

\* eventLoop: the receive finds the queue closed and empty, the loop
\* returns and the deferred wg.Done() runs.
ExecReturn ==
    /\ threads[Executor].pc = "select"
    /\ queueClosed
    /\ QueueDrained(cmdQueue)
    /\ threads' = [threads EXCEPT ![Executor].pc = "returned"]
    /\ UNCHANGED <<replyVars, snapVars, projVars, stopVars, ledgerVars, bookVars, shardVars, cmdQueue,
                   enqueued, executed, delivered, inBook, race>>

\* A sync.Once whose Do returns while the first call's function still runs
OnceReturnsEarly(once) == once # "new"

\* closeOnce.Do returns without calling the function once the first call
\* has returned.
OnceReturns(once) == once = "done"

\* Engine.Close: closeOnce.Do
CloseEnter(c) ==
    /\ threads[c].pc = "idle"
    /\ IF closeOnce = "new"
       THEN /\ closeOnce' = "running"
            /\ threads' = [threads EXCEPT ![c].pc = "store"]
       ELSE /\ OnceReturns(closeOnce)
            /\ closeOnce' = closeOnce
            /\ threads' = [threads EXCEPT ![c].pc = "returned"]
    /\ UNCHANGED <<replyVars, snapVars, projVars, ledgerVars, bookVars, shardVars, cmdQueue, enqueued,
                   executed, delivered, inBook, race, submitMu, stopped, queueClosed,
                   closed>>

\* Engine.Close: e.closed.Store(true)
CloseStore(c) ==
    /\ threads[c].pc = "store"
    /\ closed' = TRUE
    /\ threads' = [threads EXCEPT ![c].pc = "announce"]
    /\ UNCHANGED <<replyVars, snapVars, projVars, ledgerVars, bookVars, shardVars, cmdQueue, enqueued,
                   executed, delivered, inBook, race, submitMu, stopped, queueClosed,
                   closeOnce>>

\* Submitters inside Shard.Submit that wait for room in the queue
BlockedOnFullQueue ==
    {t \in Submitters : threads[t].pc = "send" /\ Len(cmdQueue) >= QueueSize}

\* Shard.Stop is called: s.submitMu.Lock() begins.  blocked records who
\* waited for room in the queue at that moment.
StopBegin(c) ==
    /\ threads[c].pc = "announce"
    /\ submitMu' = [submitMu EXCEPT !.waiting = @ \cup {c}]
    /\ threads' = [threads EXCEPT ![c].pc = "lock", ![c].blocked = BlockedOnFullQueue]
    /\ UNCHANGED <<replyVars, snapVars, projVars, ledgerVars, bookVars, shardVars, cmdQueue, enqueued,
                   executed, delivered, inBook, race, stopped, queueClosed, closed,
                   closeOnce>>

\* Shard.Stop: Lock() returns, and the critical section up to Unlock()
StopLocked(c) ==
    /\ threads[c].pc = "lock"
    /\ submitMu.readers = {} /\ submitMu.writer = ""
    /\ submitMu' = [submitMu EXCEPT !.waiting = @ \ {c}]
    /\ IF stopped
       THEN /\ threads' = [threads EXCEPT ![c].pc = "stopped"]
            /\ UNCHANGED <<stopped, queueClosed>>
       ELSE /\ stopped' = TRUE
            /\ queueClosed' = TRUE
            /\ threads' = [threads EXCEPT ![c].pc = "wait"]
    /\ UNCHANGED <<replyVars, snapVars, projVars, ledgerVars, bookVars, shardVars, cmdQueue, enqueued,
                   executed, delivered, inBook, race, closed, closeOnce>>

\* Shard.Stop: s.wg.Wait() returns once the event loop has returned; Stop
\* returns, and with it the function of closeOnce.Do and Close.
StopReturn(c) ==
    /\ threads[c].pc \in {"wait", "stopped"}
    /\ threads[c].pc = "wait" => threads[Executor].pc = "returned"
    /\ closeOnce' = "done"
    /\ threads' = [threads EXCEPT ![c].pc = "returned"]
    /\ UNCHANGED <<replyVars, snapVars, projVars, ledgerVars, bookVars, shardVars, cmdQueue, enqueued,
                   executed, delivered, inBook, race, submitMu, stopped, queueClosed,
                   closed>>

NextStop ==
    \/ \E t \in Submitters : EngineSubmit(t)
    \/ \E t \in Submitters : ShardSubmitCheck(t)
    \/ \E t \in Submitters : ShardSubmitSend(t)
    \/ \E t \in Submitters : SubmitReturn(t)
    \/ ExecTake
    \/ ExecFinish
    \/ ExecReturn
    \/ \E c \in Closers : CloseEnter(c)
    \/ \E c \in Closers : CloseStore(c)
    \/ \E c \in Closers : StopBegin(c)
    \/ \E c \in Closers : StopLocked(c)
    \/ \E c \in Closers : StopReturn(c)

SpecStop == InitStop /\ [][NextStop]_vars

\* The Go scheduler runs every goroutine that can run, and a sender that
\* waits on a full channel is served in its turn.
StopFairness ==
    /\ WF_vars(ExecTake) /\ WF_vars(ExecFinish) /\ WF_vars(ExecReturn)
    /\ \A t \in Submitters : SF_vars(ShardSubmitSend(t))
    /\ \A c \in Closers :
          /\ WF_vars(CloseStore(c)) /\ WF_vars(StopBegin(c))
          /\ WF_vars(StopLocked(c)) /\ WF_vars(StopReturn(c))

SpecStopFair == SpecStop /\ StopFairness

-----------------------------------------------------------------------------
(* Properties of stopping, checked under SpecStop and SpecStopFair         *)

Count(q, x) == Cardinality({i \in 1..Len(q) : q[i] = x})

\* The request has been executed once and its one response is in the
\* submitter's response channel or has been received from it.
AnsweredOnce(request) ==
    /\ Count(executed, request) = 1
    /\ Count(delivered, request) +
         (IF threads[request[1]].pc = "answered" /\ threads[request[1]].sent = request[2]
          THEN 1 ELSE 0) = 1

StopReturned(c) == threads[c].pc = "returned"

\* Once a Stop has returned, the event loop has ended with every request
\* that entered the queue answered once; nothing is sent on the closed
\* queue.
StopDrained ==
    /\ (\E c \in Closers : StopReturned(c)) =>
            /\ threads[Executor].pc = "returned"
            /\ cmdQueue = <<>>
            /\ \A i \in 1..Len(enqueued) : AnsweredOnce(enqueued[i])
    /\ queueClosed => \A t \in Submitters : threads[t].pc # "send"

\* C25: a Stop that has been called returns, and when it has returned every
\* submission that entered the queue has been executed and has got exactly
\* one response, also when submitters waited for room in the full queue
\* when Stop was called.
C25_StopDrains ==
    /\ []StopDrained
    /\ \A c \in Closers : (threads[c].pc = "lock") ~> StopReturned(c)

\* Stop has returned; when it was called the queue was full and a submitter
\* waited for room in it, and both requests have been executed.
C25_Witness ==
    \E c \in Closers :
        /\ StopReturned(c)
        /\ threads[c].blocked # {}
        /\ Len(executed) = Len(enqueued)
        /\ \E i \in 1..Len(enqueued) : enqueued[i][1] \in threads[c].blocked

\* C26: a submission that begins after a Close (and with it the shard's
\* Stop) has returned is answered INVALID_ARGUMENT at once and is neither
\* enqueued nor executed; and every Close that has returned, the first or a
\* later one, leaves the engine closed and the shard stopped and drained.
C26_ClosedRefuses ==
    /\ \A t \in Submitters :
          threads[t].late =>
              /\ threads[t].pc = "idle"
              /\ threads[t].resp.ErrorCode = ErrorCodeInvalidArgument
              /\ Count(enqueued, <<t, threads[t].sent>>) = 0
              /\ Count(executed, <<t, threads[t].sent>>) = 0
    /\ \A c \in Closers :
          StopReturned(c) =>
              /\ closed /\ stopped /\ queueClosed /\ closeOnce = "done"
              /\ threads[Executor].pc = "returned"

\* Both Close calls have returned, a request that came before them was
\* executed, and a submission that began afterwards was refused.
C26_Witness ==
    /\ \A c \in Closers : StopReturned(c)
    /\ Len(executed) = 1
    /\ \E t \in Submitters :
          /\ threads[t].late
          /\ threads[t].sent = 1
          /\ threads[t].resp = Refused("engine is closed")

-----------------------------------------------------------------------------
(* Cancel by an account that did not place the order                        *)

\* The call just made on the book is a Cancel of order n, which the book
\* knew before the call, by an account other than the one that placed it
\* (order n is placed by AccountOf(n) in every place request).
CancelByStranger(n) ==
    /\ n \in KnownIDs(books[BTC])
    /\ lastCall'.op = "cancel"
    /\ lastCall'.req.OrderID = n
    /\ lastCall'.req.Symbol = BTC
    /\ lastCall'.req.AccountID # AccountOf(n)

\* C27: a cancel by an account other than the one that placed the order is
\* answered UNAUTHORIZED and changes nothing in the book, for every order
\* the book knows, resting or closed.
C27_StrangerUnauthorized ==
    [][\A n \in 1..MaxOrders :
          CancelByStranger(n) =>
              /\ mapErrorCode(lastCall'.err) = ErrorCodeUnauthorized
              /\ books' = books]_vars

-----------------------------------------------------------------------------
(* Queries: the shard answering PLACE, CANCEL and QUERY commands            *)
(*  - order n is placed by AccountOf(n); order 1 sells and order 2 buys one *)
(*    unit at price 1, so an order ends filled or canceled;                 *)
(*  - the handler's key of a query holds the time in nanoseconds, so no two *)
(*    queries share a key: the number of the command stands for the time.   *)

MaxQueries == 1

QueryReq(n, acct, sym) == [OrderID |-> n, AccountID |-> acct, Symbol |-> sym]

\* Handler.QueryOrder: the envelope of a query
QueryEnvelope(n, acct, sym, nano) ==
    Envelope(CommandTypeQuery,
             "query_" \o acct \o "_" \o ToString(n) \o "_" \o ToString(nano),
             QueryReq(n, acct, sym))

OwnerPlaceEnvelopes ==
    {Envelope(CommandTypePlace, "k1",
              PlaceReq(n, AccountOf(n), BTC,
                       IF n = 1 THEN SideSell ELSE SideBuy, 1, 1)) :
        n \in ShardOrderIDs}

AnyCancelEnvelopes ==
    {Envelope(CommandTypeCancel, "k1", CancelReq(n, a, BTC)) :
        n \in ShardOrderIDs, a \in Accounts}

QueryPlace == \E envelope \in OwnerPlaceEnvelopes : Process(envelope)

QueryCancel == \E envelope \in AnyCancelEnvelopes : Process(envelope)

\* One round of the event loop for a QUERY command
QueryOrder ==
    \E n \in ShardOrderIDs \cup {0}, a \in Accounts, sym \in {BTC, ETH} :
        /\ lastProc.n < MaxCommands + MaxQueries
        /\ ProcessEffect(QueryEnvelope(n, a, sym, lastProc.n), FALSE)
        /\ UNCHANGED <<replyVars, snapVars, projVars, stopVars, ledgerVars, emitted, lastCall, now,
                       concVars>>

NextQuery == QueryPlace \/ QueryCancel \/ QueryOrder

SpecQuery == InitShard /\ [][NextQuery]_vars

\* The command just processed is a QUERY for order n of BTC's book by the
\* account that placed it.
QueriedByOwner(n) ==
    /\ lastProc.n > 0
    /\ lastProc.envelope.CommandType = CommandTypeQuery
    /\ lastProc.envelope.Symbol = BTC
    /\ lastProc.envelope.Payload.OrderID = n
    /\ lastProc.envelope.Payload.AccountID = AccountOf(n)

\* C28: a QUERY by the owning account for an order that has been canceled
\* or filled succeeds and returns the order's final status, CANCELED or
\* FILLED, with remaining quantity 0.
C28_OwnerSeesClosedOrder ==
    \A n \in ShardOrderIDs :
        (/\ QueriedByOwner(n)
         /\ Has(books, BTC)
         /\ Has(books[BTC].closedOrders, n))
        => /\ lastProc.resp.ErrorCode = ErrorCodeNone
           /\ lastProc.resp.Result # NilResult
           /\ lastProc.resp.Result.Status = books[BTC].closedOrders[n]
           /\ lastProc.resp.Result.RemainingQty = 0

-----------------------------------------------------------------------------
(* The book at rest, checked under Spec                                     *)

\* The prices at which orders rest on one side of the book
RestingPrices(levels) == {p \in DOMAIN levels : ~IsEmpty(levels[p])}

Uncrossed(ob) ==
    (RestingPrices(ob.BidLevels) # {} /\ RestingPrices(ob.AskLevels) # {})
        => SetMax(RestingPrices(ob.BidLevels)) < SetMin(RestingPrices(ob.AskLevels))

\* C29: after every place and every cancel the book is uncrossed: when both
\* sides hold orders, the highest resting bid is strictly below the lowest
\* resting ask.
C29_BookUncrossed == \A sym \in DOMAIN books : Uncrossed(books[sym])

\* An order priced at the best opposite price has just traded, and both
\* sides of the book hold orders afterwards.
C29_Witness ==
    /\ lastCall.op = "place"
    /\ lastCall.err = ""
    /\ \E i \in 1..Len(lastCall.result.Trades) :
          lastCall.result.Trades[i].Price = lastCall.req.PriceInt
    /\ RestingPrices(books[BTC].BidLevels) # {}
    /\ RestingPrices(books[BTC].AskLevels) # {}

-----------------------------------------------------------------------------
(* The ledger behind the resting orders, checked under SpecLive             *)

\* The order has a freeze record that still holds funds.
Backed(st, order) ==
    Has(st.freezes, order) /\ st.freezes[order].FrozenAmount > 0

\* C30: after any sequence of place and cancel requests handled by the API,
\* requests that reuse an idempotency key with another payload included,
\* every order resting on a book has a freeze record with a positive
\* remaining frozen amount.
C30_RestingOrdersBacked ==
    \A sym \in DOMAIN books :
        \A order \in DOMAIN books[sym].Orders : Backed(ledger, order)

-----------------------------------------------------------------------------
(* api: one buyer and a seller with two orders                              *)
(*  - a1 places one BUY order, a2 places SELL orders under two idempotency  *)
(*    keys, so an order can be filled by several trades;                    *)
(*  - as in SpecLive the event store does not fail and no record expires;   *)
(*  - no idempotency key is used for two different requests.                *)

FillKeys == {"k1", "k2"}

FillPlaceRequests ==
    [AccountID : {"a1"}, Symbol : {BTC}, Side : {SideBuy},
     Price : LedgerPrices, Quantity : LedgerQtys, IdempotencyKey : {"k1"}]
    \cup
    [AccountID : {"a2"}, Symbol : {BTC}, Side : {SideSell},
     Price : LedgerPrices, Quantity : LedgerQtys, IdempotencyKey : FillKeys]

\* a1 cancels its order.
FillCancelRequests ==
    [AccountID : {"a1"}, Symbol : {BTC}, OrderID : {1}]

FillFunds == Funded(2, 0, 0, 4)

InitFill ==
    /\ books = EmptyMap
    /\ emitted = EmptyMap
    /\ lastCall = NoCall
    /\ records = EmptyMap
    /\ eventLog = EmptyMap
    /\ now = 0
    /\ lastProc = NoProc
    /\ owner = EmptyMap
    /\ issued = EmptyMap
    /\ ConcIdle /\ ProjIdle /\ SnapIdle /\ ReplyIdle /\ StopIdle
    /\ ledger = FillFunds
    /\ lastLedger = NoLedgerCall
    /\ mu = "free"
    /\ workers = EmptyMap

\* The payload PlaceOrder hands to the engine for a request
PlacePayload(req) ==
    PlaceReq(generateOrderIDFromIdempotencyKey(req.AccountID, req.Symbol,
                                               req.IdempotencyKey),
             req.AccountID, req.Symbol, req.Side, req.Price, req.Quantity)

\* The client uses an idempotency key for one request only: a key that has
\* a record comes again with the payload of the record.
KeyKeepsPayload(req) ==
    LET k == KeyString(IdempotencyKey(req.AccountID, req.Symbol, CommandTypePlace,
                                      req.IdempotencyKey))
    IN  Has(records, k) => records[k].PayloadHash = ComputePayloadHash(PlacePayload(req))

FillPlace ==
    \E req \in FillPlaceRequests :
        /\ KeyKeepsPayload(req)
        /\ \E r \in {HandlePlace(ledger, ShardState, now, req)} : LiveStep(r)

FillCancel ==
    \E req \in FillCancelRequests :
        \E r \in {HandleCancel(ledger, ShardState, now, req)} : LiveStep(r)

NextFill == FillPlace \/ FillCancel

SpecFill == InitFill /\ [][NextFill]_vars

-----------------------------------------------------------------------------
(* Properties of the settlement of fills, checked under SpecFill            *)

\* The events of the symbol's log, in order
LogOf(symbol) == IF Has(eventLog, symbol) THEN ReadFrom(eventLog, symbol, 1) ELSE <<>>

\* The OrderMatched events of a log in which the order is the buyer
BuyerMatches(events, order) ==
    {i \in 1..Len(events) :
        /\ events[i].Type = "OrderMatched"
        /\ \/ (events[i].MakerSide = SideBuy /\ events[i].MakerOrderID = order)
           \/ (events[i].TakerSide = SideBuy /\ events[i].TakerOrderID = order)}

RECURSIVE SumOver(_, _)
SumOver(F(_), S) ==
    IF S = {} THEN 0
    ELSE LET x == CHOOSE y \in S : TRUE IN F(x) + SumOver(F, S \ {x})

\* The quote amounts of the order's trades, each rounded up, added up
SettledQuote(events, order) ==
    LET amount(i) == quoteAmountFromTrade(events[i].Price, events[i].Quantity,
                                          QuantityScale).amount
    IN  SumOver(amount, BuyerMatches(events, order))

\* Every trade of the buy order was made at the order's own limit price.
AtOwnPrice(events, accepted) ==
    \A i \in BuyerMatches(events, accepted.OrderID) : events[i].Price = accepted.Price

\* C31: for a BUY order filled by trades at its own limit price, the quote
\* amounts of the trades, each rounded up, add up to no more than the
\* quote amount frozen when the order was placed, and each of the trades
\* has been settled in the ledger.
C31_FillsWithinFreeze ==
    \A e \in 1..Len(LogOf(BTC)) :
        LET events   == LogOf(BTC)
            accepted == events[e]
        IN  (/\ accepted.Type = "OrderAccepted"
             /\ accepted.Side = SideBuy
             /\ AtOwnPrice(events, accepted))
            => /\ SettledQuote(events, accepted.OrderID)
                    <= quoteAmountFromTrade(accepted.Price, accepted.Quantity,
                                            QuantityScale).amount
               /\ \A i \in BuyerMatches(events, accepted.OrderID) :
                     <<BTC, events[i].TradeID>> \in ledger.appliedTrades

\* The OrderMatched events of a log in which the order is maker or taker
MatchesOf(events, order) ==
    {i \in 1..Len(events) :
        /\ events[i].Type = "OrderMatched"
        /\ (events[i].MakerOrderID = order \/ events[i].TakerOrderID = order)}

\* The order is FILLED on the book and each of its trades is settled.
FilledAndSettled(order) ==
    /\ Has(books, BTC)
    /\ Has(books[BTC].closedOrders, order)
    /\ books[BTC].closedOrders[order] = OrderStatusFilled
    /\ \A i \in MatchesOf(LogOf(BTC), order) :
          <<BTC, LogOf(BTC)[i].TradeID>> \in ledger.appliedTrades

\* C32: once an order is FILLED and all of its trades are settled in the
\* ledger, nothing remains frozen for it: the remaining amount of its
\* freeze record is 0, also for a BUY taker filled below its limit price.
C32_FilledLeavesNothingFrozen ==
    \A order \in {1, 2, 3} :
        (FilledAndSettled(order) /\ Has(ledger.freezes, order))
            => ledger.freezes[order].FrozenAmount = 0

-----------------------------------------------------------------------------
(* Startup recovery of what SpecFill has logged                             *)

\* performRecovery for one symbol of a fresh engine without snapshots, over
\* the ledger st: the book is replayed, then the full history is read,
\* tested for its start and its sequence, and replayed into the ledger.
performRecovery(log, symbol, st) ==
    LET G(all) ==
          IF Len(all) > 0 /\ all[1].SequenceValue # 1
          THEN "account recovery start sequence mismatch"
          ELSE IF ValidateSequence(all) # ""
          THEN "account recovery sequence validation failed"
          ELSE replayAccountEvents(st, symbol, all).err
        F(r) == IF r.err # "" THEN r.err ELSE Let1(G, ReadFrom(log, symbol, 1))
    IN  Let1(F, RecoverFromLog(log, symbol))

\* C33: the event log of a run in which no append failed is recovered at
\* startup without an error: the book replay and the ledger replay from
\* sequence 1 on the initial balances both succeed, whatever requests the
\* run has served.
C33_RecoveryCompletes ==
    \A symbol \in DOMAIN eventLog : performRecovery(eventLog, symbol, FillFunds) = ""

-----------------------------------------------------------------------------
(* Snapshots: the shard with an event store and a snapshot store attached  *)
(* and a short interval (SetSnapshotInterval).                             *)

SnapshotInterval == 2   \* Shard.snapshotInterval of this configuration

MaxSnapCommands == 4    \* commands one run of the snapshotting shard processes

\* OrderBook.ExportState: the lossless serialisation of the book, its
\* counters included
ExportState(ob) == ob

\* Shard.createSnapshot: the snapshot it builds for a symbol, or "none"
\* where the shard has no book for it.  A Save that fails is only logged.
createSnapshot(bks, symbol, lastPersistedSeq) ==
    IF ~Has(bks, symbol) THEN <<>>
    ELSE LET exported == ExportState(bks[symbol])
             state == IF exported.eventSeq < lastPersistedSeq
                      THEN SetEventSequence(exported, lastPersistedSeq)
                      ELSE exported
         IN  <<[Version      |-> 1,
                Symbol       |-> symbol,
                LastSequence |-> state.eventSeq,
                Orderbook    |-> state]>>

\* Shard.checkAndCreateSnapshot with a snapshot store attached:
\* [counters, taken], taken holding the snapshot built, if any
checkAndCreateSnapshot(bks, counters, symbol, persistedEvents, lastPersistedSeq) ==
    IF persistedEvents <= 0 THEN [counters |-> counters, taken |-> <<>>]
    ELSE LET count == (IF Has(counters, symbol) THEN counters[symbol] ELSE 0)
                      + persistedEvents
         IN  IF count >= SnapshotInterval
             THEN [counters |-> Put(counters, symbol, count % SnapshotInterval),
                   taken    |-> createSnapshot(bks, symbol, lastPersistedSeq)]
             ELSE [counters |-> Put(counters, symbol, count), taken |-> <<>>]

\* One account sells, buys and sells again, each request under its own
\* key, and cancels.
SnapPlaceEnvelopes ==
    {Envelope(CommandTypePlace, IF n = 1 THEN "k1" ELSE IF n = 2 THEN "k2" ELSE "k3",
              PlaceReq(n, "a1", BTC, IF n = 2 THEN SideBuy ELSE SideSell, 1, 1)) :
        n \in {1, 2, 3}}

SnapCancelEnvelopes ==
    {Envelope(CommandTypeCancel, IF n = 1 THEN "k1" ELSE "k3", CancelReq(n, "a1", BTC)) :
        n \in {1, 3}}

\* executePlace / executeCancel reach checkAndCreateSnapshot after the last
\* Append has succeeded, with the number of the command's events and the
\* sequence of the last one; every other way out of the command skips it.
SnapshotStep(proc, symbol, saved) ==
    LET counted == /\ proc.ran
                   /\ proc.resp.ErrorCode = ErrorCodeNone
                   /\ Len(proc.resp.Result.Events) > 0
        events == proc.resp.Result.Events
        F(c) ==
          /\ eventCounters' = c.counters
          /\ snapshots' = IF c.taken = <<>> THEN snapshots
                          ELSE Append(snapshots,
                                      [snapshot |-> c.taken[1],
                                       saved    |-> saved,
                                       log      |-> ReadFrom(eventLog', symbol, 1)])
    IN  IF ~counted THEN UNCHANGED snapVars
        ELSE \E c \in {checkAndCreateSnapshot(books', eventCounters, symbol,
                                              Len(events),
                                              events[Len(events)].SequenceValue)} :
                F(c)

\* One round of the event loop with the snapshot store attached; Save
\* succeeds or fails.
SnapProcess(envelope) ==
    /\ lastProc.n < MaxSnapCommands
    /\ ProcessEffect(envelope, FALSE)
    /\ \E saved \in BOOLEAN : SnapshotStep(lastProc', envelope.Symbol, saved)
    /\ UNCHANGED <<replyVars, projVars, stopVars, ledgerVars, emitted, lastCall, now,
                   concVars>>

SnapPlace == \E envelope \in SnapPlaceEnvelopes : SnapProcess(envelope)

SnapCancel == \E envelope \in SnapCancelEnvelopes : SnapProcess(envelope)

NextSnap == SnapPlace \/ SnapCancel

SpecSnap == InitShard /\ [][NextSnap]_vars

\* The lines of the symbol's file whose Append returned without an error
Persisted(symbol) ==
    IF ~Has(eventLog, symbol) THEN 0
    ELSE Cardinality({i \in 1..Len(eventLog[symbol]) : eventLog[symbol][i].synced})

\* The book that replaying the events into an empty book gives
Replayed(symbol, events) ==
    LET F(r) == IF r.err # "" \/ ~Has(r.books, symbol) THEN [nil |-> TRUE]
                ELSE r.books[symbol]
    IN  Let1(F, ReplayEvents(EmptyMap, symbol, events))

SnapshotAtLogEnd(s) ==
    /\ s.log # <<>>
    /\ s.snapshot.LastSequence = s.log[Len(s.log)].SequenceValue

SnapshotIsReplay(s) ==
    /\ \A i \in 1..Len(s.log) : s.log[i].SequenceValue = i
    /\ s.snapshot.Orderbook = Replayed(s.snapshot.Symbol, s.log)

CounterFollowsLog(symbol) ==
    /\ (IF Has(eventCounters, symbol) THEN eventCounters[symbol] ELSE 0)
          = Persisted(symbol) % SnapshotInterval
    /\ Cardinality({i \in 1..Len(snapshots) : snapshots[i].snapshot.Symbol = symbol})
          = Persisted(symbol) \div SnapshotInterval

\* C34: every saved snapshot of a symbol has last_sequence equal to the
\* sequence of the last event in the symbol's log at capture, and its book
\* state is the state that applying the log's events 1..last_sequence gives;
\* a snapshot is taken exactly when the events persisted since the previous
\* snapshot reach the interval, and the count is then reduced modulo the
\* interval.
C34_SnapshotsFollowLog ==
    /\ \A i \in 1..Len(snapshots) :
          snapshots[i].saved =>
             SnapshotAtLogEnd(snapshots[i]) /\ SnapshotIsReplay(snapshots[i])
    /\ CounterFollowsLog(BTC)

-----------------------------------------------------------------------------
(* The status changes a place returns, checked under Spec                  *)

\* The entries of a result's OrderStatusChanges that are about one order
ChangesOf(result, id) ==
    SelectSeq(result.OrderStatusChanges, LAMBDA c : c.OrderID = id)

\* What the book knows of an order after a command: [status, remaining]
FinalOf(ob, id) ==
    IF Has(ob.Orders, id)
    THEN [status |-> ob.Orders[id].Status, remaining |-> ob.Orders[id].RemainingQty]
    ELSE [status |-> ob.closedOrders[id], remaining |-> 0]

\* The one entry an order has, saying where it went from old to its state
\* after the command
FinalEntry(changes, old, ob, id, quantity) ==
    /\ Len(changes) = 1
    /\ changes[1].OldStatus = old
    /\ changes[1].NewStatus = FinalOf(ob, id).status
    /\ changes[1].RemainingQty = FinalOf(ob, id).remaining
    /\ changes[1].FilledQty = quantity - FinalOf(ob, id).remaining

TakerOnce(ob, call) ==
    LET changes == ChangesOf(call.result, call.req.OrderID)
    IN  \/ changes = <<>>
        \/ FinalEntry(changes, OrderStatusNew, ob, call.req.OrderID,
                      call.req.QuantityInt)

\* A maker trades once in a command: either it is exhausted or the taker is.
MakersEachChange(before, ob, call) ==
    \A i \in 1..Len(call.result.Trades) :
        LET id == call.result.Trades[i].MakerOrderID
            changes == ChangesOf(call.result, id)
        IN  IF before.Orders[id].Status = FinalOf(ob, id).status
            THEN changes = <<>>
            ELSE FinalEntry(changes, before.Orders[id].Status, ob, id,
                            before.Orders[id].Quantity)

\* C35: in the result of a place the taker appears in the status changes at
\* most once, with its status, remaining and filled quantities after all
\* the matching of the command, and each maker has an entry for each fill
\* that changed its status.
C35_TakerOnce ==
    [][PlaceStep =>
        /\ TakerOnce(books'[lastCall'.symbol], lastCall')
        /\ MakersEachChange(books[lastCall'.symbol], books'[lastCall'.symbol],
                            lastCall')
    ]_vars

-----------------------------------------------------------------------------
(* The answers of POST /orders: SpecFill with quantities up to 3 and the   *)
(* answer of each request kept                                             *)

ReplyQtys == {1, 2, 3}

ReplyPlaceRequests ==
    [AccountID : {"a1"}, Symbol : {BTC}, Side : {SideBuy},
     Price : LedgerPrices, Quantity : ReplyQtys, IdempotencyKey : {"k1"}]
    \cup
    [AccountID : {"a2"}, Symbol : {BTC}, Side : {SideSell},
     Price : LedgerPrices, Quantity : ReplyQtys, IdempotencyKey : FillKeys]

ReplyFunds == Funded(3, 0, 0, 6)

InitReply ==
    /\ books = EmptyMap
    /\ emitted = EmptyMap
    /\ lastCall = NoCall
    /\ records = EmptyMap
    /\ eventLog = EmptyMap
    /\ now = 0
    /\ lastProc = NoProc
    /\ owner = EmptyMap
    /\ issued = EmptyMap
    /\ ConcIdle /\ ProjIdle /\ SnapIdle /\ ReplyIdle /\ StopIdle
    /\ ledger = ReplyFunds
    /\ lastLedger = NoLedgerCall
    /\ mu = "free"
    /\ workers = EmptyMap

ReplyPlace ==
    \E req \in ReplyPlaceRequests :
        /\ KeyKeepsPayload(req)
        /\ \E r \in {HandlePlace(ledger, ShardState, now, req)} :
              /\ ledger' = r.ledger
              /\ books' = r.shard.books
              /\ eventLog' = r.shard.eventLog
              /\ records' = r.shard.records
              /\ lastReply' = r.reply
              /\ UNCHANGED <<snapVars, projVars, stopVars, emitted, lastCall, now,
                             lastProc, owner, issued, concVars, lastLedger, mu, workers>>

ReplyCancel ==
    \E req \in FillCancelRequests :
        \E r \in {HandleCancel(ledger, ShardState, now, req)} : LiveStep(r)

NextReply == ReplyPlace \/ ReplyCancel

SpecReply == InitReply /\ [][NextReply]_vars

\* A step in which PlaceOrder had its command executed and answered 200:
\* the log has gained the OrderAccepted of the order the answer names.
PlaceAnswered ==
    LET was == ReadFrom(eventLog, BTC, 1)
        is  == ReadFrom(eventLog', BTC, 1)
    IN  /\ lastReply'.Code = ""
        /\ Len(is) > Len(was)
        /\ is[Len(was) + 1].Type = "OrderAccepted"
        /\ is[Len(was) + 1].OrderID = lastReply'.OrderID

\* C36: the status in the answer to a place request is the status the
\* placed order has on the book after the command (NEW, PARTIALLY_FILLED or
\* FILLED), whatever it traded against, never the status of a maker.
C36_ReplyStatusIsOwn ==
    [][PlaceAnswered =>
          lastReply'.Status = FinalOf(books'[BTC], lastReply'.OrderID).status
    ]_vars

-----------------------------------------------------------------------------
(* Restarts: the handlers of SpecFill over an event store that can fail,   *)
(* and the process stopping and starting again through performRecovery     *)

\* What a stop of the process leaves of a symbol's file: every line, or,
\* after a crash, the file without the unsynced lines at its end.
RECURSIVE DropUnsyncedTail(_)
DropUnsyncedTail(lines) ==
    IF lines = <<>> \/ lines[Len(lines)].synced THEN lines
    ELSE DropUnsyncedTail(SubSeq(lines, 1, Len(lines) - 1))

LogsAfterStop(log) ==
    {log, [symbol \in DOMAIN log |-> DropUnsyncedTail(log[symbol])]}

\* a1 buys one or two units and a2 sells one unit under each of its keys,
\* all at one price.
RestartPlaceRequests ==
    {req \in FillPlaceRequests :
        /\ req.Price = 1000000
        /\ req.AccountID = "a2" => req.Quantity = 1}

RestartPlace ==
    \E req \in RestartPlaceRequests, fate \in Fates :
        /\ KeyKeepsPayload(req)
        /\ \E r \in {PlaceOrder(ledger, ShardState, now, req, fate)} : LiveStep(r)

RestartCancel ==
    \E req \in FillCancelRequests, fate \in Fates :
        \E r \in {CancelOrder(ledger, ShardState, now, req, fate)} : LiveStep(r)

\* main: a new process with an empty engine, idempotency store and ledger
\* is funded and runs performRecovery; it serves requests only when that
\* returns without an error.
Restart ==
    \E log \in LogsAfterStop(eventLog) :
        /\ performRecovery(log, BTC, FillFunds) = ""
        /\ eventLog' = log
        /\ \E r \in {RecoverFromLog(log, BTC)} : books' = r.books
        /\ \E r \in {replayAccountEvents(FillFunds, BTC, ReadFrom(log, BTC, 1))} :
              ledger' = r.ledger
        /\ records' = EmptyMap
        /\ UNCHANGED <<replyVars, snapVars, projVars, stopVars, emitted, lastCall, now,
                       lastProc, owner, issued, concVars, lastLedger, mu, workers>>

NextRestart == RestartPlace \/ RestartCancel \/ Restart

SpecRestart == InitFill /\ [][NextRestart]_vars

\* The OrderMatched events among the events
MatchedIn(events) == {i \in 1..Len(events) : events[i].Type = "OrderMatched"}

UniqueTradeIDs(events) ==
    \A i, j \in MatchedIn(events) :
        i # j => events[i].TradeID # events[j].TradeID

\* The trades a step has added to the symbol's log
NewlyLogged ==
    LET was == ReadFrom(eventLog, BTC, 1)
        is  == ReadFrom(eventLog', BTC, 1)
    IN  {is[i] : i \in {j \in MatchedIn(is) : j > Len(was)}}

-----------------------------------------------------------------------------
(* Submit against Stop, checked under SpecStop                             *)

\* The Submit calls a submitter has made so far: <<t, 1>> .. <<t, sent>>
CallsOf(t) == {<<t, k>> : k \in 1..threads[t].sent}

\* The submitter's latest call has returned.
CallReturned(t) == threads[t].sent > 0 /\ threads[t].pc = "idle"

\* A call entered the queue at most once; one that has returned was either
\* refused with INVALID_ARGUMENT and never entered the queue, or entered it
\* once, was executed once and got what the executor answered.
RejectedOrEnqueuedOnce(t) ==
    /\ \A call \in CallsOf(t) : Count(enqueued, call) <= 1
    /\ CallReturned(t) =>
          LET call == <<t, threads[t].sent>>
          IN  IF threads[t].resp \in {Refused("engine is closed"),
                                      Refused("shard is stopped")}
              THEN /\ threads[t].resp.ErrorCode = ErrorCodeInvalidArgument
                   /\ Count(enqueued, call) = 0
                   /\ Count(executed, call) = 0
              ELSE /\ Count(enqueued, call) = 1
                   /\ Count(executed, call) = 1
                   /\ Count(delivered, call) = 1

\* C38: under every interleaving of Submit and Stop calls nothing is written
\* to the command queue once it has been closed, and every Submit call is
\* either refused with INVALID_ARGUMENT or is enqueued exactly once.
C38_NoSendAfterClose ==
    /\ [](\A t \in Submitters : RejectedOrEnqueuedOnce(t))
    /\ [][queueClosed => /\ enqueued' = enqueued
                         /\ Len(cmdQueue') <= Len(cmdQueue)]_vars

\* C38 witness: the queue is closed; one Submit that had passed the
\* engine's test was refused by the stopped shard, another had entered the
\* queue before and has been answered.
C38_Witness ==
    /\ queueClosed
    /\ \E t, u \in Submitters :
          /\ CallReturned(t) /\ threads[t].resp = Refused("shard is stopped")
          /\ CallReturned(u) /\ Count(executed, <<u, threads[u].sent>>) = 1

-----------------------------------------------------------------------------
(* Price levels and active orders between commands, checked under Spec     *)

\* The orders linked into a level's queue
Queued(level) == {level.Queue[i] : i \in 1..Len(level.Queue)}

\* The remaining quantities of the level's queued orders, added up
QueuedRemaining(ob, level) ==
    LET remaining(id) == ob.Orders[id].RemainingQty
    IN  SumOver(remaining, Queued(level))

LevelsConsistent(ob) ==
    \A side \in {SideBuy, SideSell} :
        \A price \in DOMAIN Levels(ob, side) :
            LET level == Levels(ob, side)[price]
            IN  /\ ~IsEmpty(level)
                /\ Queued(level) \subseteq DOMAIN ob.Orders
                /\ level.Volume = QueuedRemaining(ob, level)

\* C39: after every place or cancel each price level's cached volume is the
\* sum of the remaining quantities of the orders queued in it, and no level
\* with an empty queue exists on either side of the book.
C39_LevelVolumes == \A sym \in DOMAIN books : LevelsConsistent(books[sym])

\* C39 witness: after a place that traded, a level holds two orders, the
\* first of them partly filled.
C39_Witness ==
    /\ lastCall.op = "place" /\ Len(TradesOf(lastCall)) = 1
    /\ \E side \in {SideBuy, SideSell} :
          \E price \in DOMAIN Levels(books[BTC], side) :
              LET level == Levels(books[BTC], side)[price]
              IN  /\ Len(level.Queue) = 2
                  /\ books[BTC].Orders[level.Queue[1]].RemainingQty
                        < books[BTC].Orders[level.Queue[1]].Quantity

\* The quantities of the first n trades, added up
RECURSIVE TradedBefore(_, _)
TradedBefore(trades, n) ==
    IF n = 0 THEN 0 ELSE trades[n].Quantity + TradedBefore(trades, n - 1)

Min(a, b) == IF a < b THEN a ELSE b

\* Every active order has something left, no more than it asked for, and
\* its snapshot's filled and remaining quantities add up to its quantity.
ActiveOrdersOpen(ob) ==
    \A id \in DOMAIN ob.Orders :
        /\ 0 < ob.Orders[id].RemainingQty
        /\ ob.Orders[id].RemainingQty <= ob.Orders[id].Quantity
        /\ GetOrderSnapshot(ob, id).snapshot.FilledQty
              + GetOrderSnapshot(ob, id).snapshot.RemainingQty
              = GetOrderSnapshot(ob, id).snapshot.Quantity

\* Each trade of a place takes from the maker and from the taker the
\* smaller of what the two had left, and an order left with 0 is closed as
\* FILLED.
TradesTakeMin(before, ob, call) ==
    LET trades == call.result.Trades
        taker  == call.req.OrderID
    IN  /\ \A i \in 1..Len(trades) :
              LET maker == trades[i].MakerOrderID
                  left  == call.req.QuantityInt - TradedBefore(trades, i - 1)
              IN  /\ trades[i].Quantity
                        = Min(before.Orders[maker].RemainingQty, left)
                  /\ FinalOf(ob, maker).remaining
                        = before.Orders[maker].RemainingQty - trades[i].Quantity
                  /\ FinalOf(ob, maker).remaining = 0 =>
                        /\ ~Has(ob.Orders, maker)
                        /\ ob.closedOrders[maker] = OrderStatusFilled
        /\ FinalOf(ob, taker).remaining
              = call.req.QuantityInt - TradedBefore(trades, Len(trades))
        /\ FinalOf(ob, taker).remaining = 0 =>
              /\ ~Has(ob.Orders, taker)
              /\ ob.closedOrders[taker] = OrderStatusFilled

\* C40: between commands every active order has 0 < remaining <= quantity
\* and filled + remaining = quantity; each trade reduced the maker's and
\* the taker's remaining by the smaller of the two, and an order whose
\* remaining has reached 0 is no longer active.
C40_ActiveOrdersOpen ==
    /\ [](\A sym \in DOMAIN books : ActiveOrdersOpen(books[sym]))
    /\ [][PlaceStep => TradesTakeMin(books[lastCall'.symbol],
                                     books'[lastCall'.symbol], lastCall')]_vars

\* C40 witness: a place of two units has traded twice; the second maker
\* had two units and stays active with one, the first maker and the taker
\* are closed.
C40_Witness ==
    /\ lastCall.op = "place" /\ Len(TradesOf(lastCall)) = 2
    /\ Cardinality(DOMAIN books[BTC].Orders) = 1
    /\ \E id \in DOMAIN books[BTC].Orders :
          /\ id = TradesOf(lastCall)[2].MakerOrderID
          /\ books[BTC].Orders[id].RemainingQty = 1
          /\ books[BTC].Orders[id].Quantity = 2

====
